---- MODULE Spec2Model ----
(***************************************************************************)
(* Scoring and normalization pipeline of the stock advisor:                *)
(*   utils/data_normalizer.py  (DataNormalizer)                            *)
(*   agents/aggregator_agent.py (AggregatorAgent)                          *)
(* and the cache of the fetchers, utils/cache_manager.py (CacheManager),   *)
(* whose calls are the specification CacheSpec.                            *)
(* Every operation is one call: its arguments are chosen, its result is    *)
(* computed, and the caller takes the result (Return).                     *)
(*                                                                         *)
(* Numbers.  Python floats are modelled by exact fixed-point / rational    *)
(* arithmetic:                                                             *)
(*   - a raw metric value v stands for v/100   (pe 1500 = 15.0, roe 20 =   *)
(*     0.20, avg_sentiment -50 = -0.5, volatility 30 = 0.3); counts are    *)
(*     plain integers;                                                     *)
(*   - a score s stands for s/100 points       (5000 = 50.0);              *)
(*   - a quotient is kept as a rational [n, d] with d > 0;                 *)
(*   - weights are in 1/10 (5 = 0.5).                                      *)
(* The arithmetic is exact: the rounding error of the last bit of a float  *)
(* is not modelled.                                                        *)
(* Python values.  A dictionary entry is [k, v]: k = "none" (key missing,  *)
(* or None where the code tests for None), k = "num" (the number v), or    *)
(* k = "bad" (a value on which the code's comparison or arithmetic raises  *)
(* TypeError: a string, or None where the code does not test for it).      *)
(* A record is k = "none" (None), "empty" ({}), or "dict".                 *)
(***************************************************************************)
EXTENDS Integers, Sequences, FiniteSets, TLC

VARIABLES pc, op, arg, fund, sent, weights, bundles, results_arg, ret, prev, now,
          memory_cache, cache_files, stored, last_set, calls

vars == <<pc, op, arg, fund, sent, weights, bundles, results_arg, ret, prev, now,
          memory_cache, cache_files, stored, last_set, calls>>

cacheVars == <<memory_cache, cache_files, stored, last_set, calls>>

---------------------------------------------------------------------------
(* Python values *)

NoneV == [k |-> "none", v |-> 0]
BadV == [k |-> "bad", v |-> 0]
RaiseV == [k |-> "raise", v |-> 0]
Num(x) == [k |-> "num", v |-> x]

\* x points, in the score unit (1/100 point)
P(x) == x * 100

\* Clamp without its upper bound: max(0, x)
ClampNoUpper(x) == IF x < 0 THEN 0 ELSE x

\* max(0, min(100, x)) on a score in 1/100 points
Clamp(x) == IF x > P(100) THEN P(100) ELSE IF x < 0 THEN 0 ELSE x

\* rationals n/d, d > 0
Rat(n, d) == [n |-> n, d |-> d]
RatEq(a, b) == a.n * b.d = b.n * a.d
RatLe(a, b) == a.n * b.d <= b.n * a.d
RatLt(a, b) == a.n * b.d < b.n * a.d
RatOfInt(x) == Rat(x, 1)

\* max(0, min(100, x)) on a rational score
ClampRat(r) ==
    IF r.n > P(100) * r.d THEN RatOfInt(P(100))
    ELSE IF r.n < 0 THEN RatOfInt(0)
    ELSE r

---------------------------------------------------------------------------
(* DataNormalizer *)

fundamental_benchmarks ==
    [pe_ratio |-> [excellent |-> 1500, good |-> 2000, fair |-> 2500, poor |-> 3500],
     pb_ratio |-> [excellent |-> 150, good |-> 300, fair |-> 500, poor |-> 800],
     roe |-> [excellent |-> 20, good |-> 15, fair |-> 10, poor |-> 5],
     debt_to_equity |-> [excellent |-> 30, good |-> 60, fair |-> 100, poor |-> 150],
     profit_margin |-> [excellent |-> 20, good |-> 10, fair |-> 5, poor |-> 2]]

\* max(0, x) of the linear tails
Max0(x) == IF x < 0 THEN 0 ELSE x

\* _normalize_pe_ratio with the band edges excluded (< for <=)
_normalize_pe_ratio_open_bands(pe_ratio) ==
    LET benchmarks == fundamental_benchmarks.pe_ratio IN
    IF pe_ratio.k = "none" THEN NoneV
    ELSE IF pe_ratio.k = "bad" THEN RaiseV
    ELSE IF pe_ratio.v <= 0 THEN NoneV
    ELSE IF pe_ratio.v < benchmarks.excellent THEN Num(P(100))
    ELSE IF pe_ratio.v < benchmarks.good THEN Num(P(85))
    ELSE IF pe_ratio.v < benchmarks.fair THEN Num(P(65))
    ELSE IF pe_ratio.v < benchmarks.poor THEN Num(P(40))
    ELSE Num(Max0(P(40) - (pe_ratio.v - benchmarks.poor) * 2))

\* _normalize_pe_ratio with the score 0 for an invalid PE, instead of None
_normalize_pe_ratio_zero_sentinel(pe_ratio) ==
    LET benchmarks == fundamental_benchmarks.pe_ratio IN
    IF pe_ratio.k = "none" THEN NoneV
    ELSE IF pe_ratio.k = "bad" THEN RaiseV
    ELSE IF pe_ratio.v <= 0 THEN Num(0)
    ELSE IF pe_ratio.v <= benchmarks.excellent THEN Num(P(100))
    ELSE IF pe_ratio.v <= benchmarks.good THEN Num(P(85))
    ELSE IF pe_ratio.v <= benchmarks.fair THEN Num(P(65))
    ELSE IF pe_ratio.v <= benchmarks.poor THEN Num(P(40))
    ELSE Num(Max0(P(40) - (pe_ratio.v - benchmarks.poor) * 2))

_normalize_pe_ratio(pe_ratio) ==
    LET benchmarks == fundamental_benchmarks.pe_ratio IN
    IF pe_ratio.k = "none" THEN NoneV
    ELSE IF pe_ratio.k = "bad" THEN RaiseV
    ELSE IF pe_ratio.v <= 0 THEN NoneV
    ELSE IF pe_ratio.v <= benchmarks.excellent THEN Num(P(100))
    ELSE IF pe_ratio.v <= benchmarks.good THEN Num(P(85))
    ELSE IF pe_ratio.v <= benchmarks.fair THEN Num(P(65))
    ELSE IF pe_ratio.v <= benchmarks.poor THEN Num(P(40))
    ELSE Num(Max0(P(40) - (pe_ratio.v - benchmarks.poor) * 2))

_normalize_pb_ratio(pb_ratio) ==
    LET benchmarks == fundamental_benchmarks.pb_ratio IN
    IF pb_ratio.k = "none" THEN NoneV
    ELSE IF pb_ratio.k = "bad" THEN RaiseV
    ELSE IF pb_ratio.v <= 0 THEN NoneV
    ELSE IF pb_ratio.v <= benchmarks.excellent THEN Num(P(100))
    ELSE IF pb_ratio.v <= benchmarks.good THEN Num(P(80))
    ELSE IF pb_ratio.v <= benchmarks.fair THEN Num(P(60))
    ELSE IF pb_ratio.v <= benchmarks.poor THEN Num(P(30))
    ELSE Num(Max0(P(30) - (pb_ratio.v - benchmarks.poor) * 5))

\* roe_value = roe if roe <= 1 else roe / 100, compared with the benchmarks;
\* both sides are scaled by 100 when the value is divided, to stay in integers
_normalize_roe(roe) ==
    LET benchmarks == fundamental_benchmarks.roe
        scaled == roe.v > 100
        roe_value == roe.v
        B(b) == IF scaled THEN b * 100 ELSE b
    IN
    IF roe.k = "none" THEN NoneV
    ELSE IF roe.k = "bad" THEN RaiseV
    ELSE IF roe_value >= B(benchmarks.excellent) THEN Num(P(100))
    ELSE IF roe_value >= B(benchmarks.good) THEN Num(P(85))
    ELSE IF roe_value >= B(benchmarks.fair) THEN Num(P(65))
    ELSE IF roe_value >= B(benchmarks.poor) THEN Num(P(40))
    ELSE IF roe_value > 0 THEN Num(P(20))
    ELSE Num(0)

_normalize_debt_to_equity(debt_to_equity) ==
    LET benchmarks == fundamental_benchmarks.debt_to_equity IN
    IF debt_to_equity.k = "none" THEN NoneV
    ELSE IF debt_to_equity.k = "bad" THEN RaiseV
    ELSE IF debt_to_equity.v <= benchmarks.excellent THEN Num(P(100))
    ELSE IF debt_to_equity.v <= benchmarks.good THEN Num(P(80))
    ELSE IF debt_to_equity.v <= benchmarks.fair THEN Num(P(60))
    ELSE IF debt_to_equity.v <= benchmarks.poor THEN Num(P(40))
    ELSE Num(Max0(P(40) - (debt_to_equity.v - benchmarks.poor) * 10))

_normalize_profit_margin(profit_margin) ==
    LET benchmarks == fundamental_benchmarks.profit_margin
        scaled == profit_margin.v > 100
        margin_value == profit_margin.v
        B(b) == IF scaled THEN b * 100 ELSE b
    IN
    IF profit_margin.k = "none" THEN NoneV
    ELSE IF profit_margin.k = "bad" THEN RaiseV
    ELSE IF margin_value >= B(benchmarks.excellent) THEN Num(P(100))
    ELSE IF margin_value >= B(benchmarks.good) THEN Num(P(85))
    ELSE IF margin_value >= B(benchmarks.fair) THEN Num(P(65))
    ELSE IF margin_value >= B(benchmarks.poor) THEN Num(P(40))
    ELSE IF margin_value > 0 THEN Num(P(20))
    ELSE Num(0)

Abs(x) == IF x < 0 THEN 0 - x ELSE x

\* _normalize_revenue_growth with the test g <= 1 of the other two metrics
_normalize_revenue_growth_signed(revenue_growth) ==
    LET scaled == revenue_growth.v > 100
        growth_value == revenue_growth.v
        B(b) == IF scaled THEN b * 100 ELSE b
    IN
    IF revenue_growth.k = "none" THEN NoneV
    ELSE IF revenue_growth.k = "bad" THEN RaiseV
    ELSE IF growth_value >= B(30) THEN Num(P(100))
    ELSE IF growth_value >= B(20) THEN Num(P(90))
    ELSE IF growth_value >= B(10) THEN Num(P(75))
    ELSE IF growth_value >= B(5) THEN Num(P(60))
    ELSE IF growth_value >= 0 THEN Num(P(50))
    ELSE IF growth_value >= B(-5) THEN Num(P(40))
    ELSE IF growth_value >= B(-10) THEN Num(P(25))
    ELSE Num(0)

\* growth_value = g if abs(g) <= 1 else g / 100
_normalize_revenue_growth(revenue_growth) ==
    LET scaled == Abs(revenue_growth.v) > 100
        growth_value == revenue_growth.v
        B(b) == IF scaled THEN b * 100 ELSE b
    IN
    IF revenue_growth.k = "none" THEN NoneV
    ELSE IF revenue_growth.k = "bad" THEN RaiseV
    ELSE IF growth_value >= B(30) THEN Num(P(100))
    ELSE IF growth_value >= B(20) THEN Num(P(90))
    ELSE IF growth_value >= B(10) THEN Num(P(75))
    ELSE IF growth_value >= B(5) THEN Num(P(60))
    ELSE IF growth_value >= 0 THEN Num(P(50))
    ELSE IF growth_value >= B(-5) THEN Num(P(40))
    ELSE IF growth_value >= B(-10) THEN Num(P(25))
    ELSE Num(0)

\* a metric's share of the weighted sum and of the weight total (weights in %)
Contribution(sub, w) == IF sub.k = "num" THEN sub.v * w ELSE 0
WeightUsed(sub, w) == IF sub.k = "num" THEN w ELSE 0

\* the six sub-scores, in the order the code computes them
FundSubScores(fundamental_data) ==
    <<_normalize_pe_ratio(fundamental_data.pe_ratio),
      _normalize_pb_ratio(fundamental_data.pb_ratio),
      _normalize_roe(fundamental_data.roe),
      _normalize_debt_to_equity(fundamental_data.debt_to_equity),
      _normalize_profit_margin(fundamental_data.profit_margin),
      _normalize_revenue_growth(fundamental_data.revenue_growth)>>

\* 0.20, 0.15, 0.25, 0.15, 0.15, 0.10 in %
FundWeights == <<20, 15, 25, 15, 15, 10>>

RECURSIVE SumTo(_, _)
SumTo(f, i) == IF i = 0 THEN 0 ELSE f[i] + SumTo(f, i - 1)

\* final_score = (score / total_weight) * 100, before the clamp
FundFinalScore(score, total_weight) ==
    IF total_weight > 0 THEN Rat(score * 100, total_weight)
    ELSE RatOfInt(P(50))

\* normalize_fundamental_score without the test for the error marker
normalize_fundamental_score_no_marker(fundamental_data) ==
    IF fundamental_data.k # "dict"
    THEN RatOfInt(P(50))
    ELSE
      LET subs == FundSubScores(fundamental_data)
          score == SumTo([i \in 1..6 |-> Contribution(subs[i], FundWeights[i])], 6)
          total_weight == SumTo([i \in 1..6 |-> WeightUsed(subs[i], FundWeights[i])], 6)
      IN IF \E i \in 1..6 : subs[i].k = "raise"
         THEN RatOfInt(P(50))
         ELSE ClampRat(FundFinalScore(score, total_weight))

normalize_fundamental_score(fundamental_data) ==
    IF fundamental_data.k # "dict" \/ fundamental_data.error
    THEN RatOfInt(P(50))
    ELSE
      LET subs == FundSubScores(fundamental_data)
          score == SumTo([i \in 1..6 |-> Contribution(subs[i], FundWeights[i])], 6)
          total_weight == SumTo([i \in 1..6 |-> WeightUsed(subs[i], FundWeights[i])], 6)
      IN IF \E i \in 1..6 : subs[i].k = "raise"
         THEN RatOfInt(P(50))
         ELSE ClampRat(FundFinalScore(score, total_weight))

\* dict.get(key, default) for a numeric default
Get(x, default) == IF x.k = "none" THEN Num(default) ELSE x

_normalize_article_coverage(total_articles) ==
    IF total_articles.k = "bad" THEN RaiseV
    ELSE IF total_articles.v >= 15 THEN Num(P(100))
    ELSE IF total_articles.v >= 10 THEN Num(P(85))
    ELSE IF total_articles.v >= 5 THEN Num(P(70))
    ELSE IF total_articles.v >= 2 THEN Num(P(55))
    ELSE IF total_articles.v >= 1 THEN Num(P(40))
    ELSE Num(P(20))

\* positive_count / total >= tenths / 10, for total # 0 of either sign
RatioGe(positive_count, total, tenths) ==
    IF total > 0 THEN positive_count * 10 >= tenths * total
    ELSE positive_count * 10 <= tenths * total

_normalize_sentiment_ratio(positive_count, negative_count) ==
    LET total == positive_count.v + negative_count.v IN
    IF positive_count.k = "bad" \/ negative_count.k = "bad" THEN RaiseV
    ELSE IF total = 0 THEN Num(P(50))
    ELSE IF RatioGe(positive_count.v, total, 8) THEN Num(P(100))
    ELSE IF RatioGe(positive_count.v, total, 6) THEN Num(P(80))
    ELSE IF RatioGe(positive_count.v, total, 4) THEN Num(P(60))
    ELSE IF RatioGe(positive_count.v, total, 2) THEN Num(P(40))
    ELSE Num(P(20))

_normalize_sentiment_consistency(volatility) ==
    IF volatility.k = "bad" THEN RaiseV
    ELSE IF volatility.v <= 10 THEN Num(P(100))
    ELSE IF volatility.v <= 20 THEN Num(P(80))
    ELSE IF volatility.v <= 30 THEN Num(P(60))
    ELSE IF volatility.v <= 50 THEN Num(P(40))
    ELSE Num(P(20))

\* (sub - 50) * pct/100, exact on the sub-scores of the tables
Centered(sub, pct) == ((sub - P(50)) * pct) \div 100

\* normalize_sentiment_score with the clamp applied after every contribution
normalize_sentiment_score_running_clamp(sentiment_data) ==
    IF sentiment_data.k # "dict" \/ sentiment_data.error
    THEN P(50)
    ELSE
      LET avg_sentiment == sentiment_data.avg_sentiment
          sentiment_contribution ==
              IF avg_sentiment.k = "num" THEN avg_sentiment.v * 25 ELSE 0
          coverage_score ==
              _normalize_article_coverage(Get(sentiment_data.total_articles, 0))
          ratio_score ==
              _normalize_sentiment_ratio(Get(sentiment_data.positive_count, 0),
                                         Get(sentiment_data.negative_count, 0))
          consistency_score ==
              _normalize_sentiment_consistency(Get(sentiment_data.sentiment_volatility, 0))
          s1 == Clamp(P(50) + sentiment_contribution)
          s2 == Clamp(s1 + Centered(coverage_score.v, 20))
          s3 == Clamp(s2 + Centered(ratio_score.v, 20))
      IN IF \/ avg_sentiment.k = "bad"
            \/ coverage_score.k = "raise"
            \/ ratio_score.k = "raise"
            \/ consistency_score.k = "raise"
         THEN P(50)
         ELSE Clamp(s3 + Centered(consistency_score.v, 10))

normalize_sentiment_score(sentiment_data) ==
    IF sentiment_data.k # "dict" \/ sentiment_data.error
    THEN P(50)
    ELSE
      LET avg_sentiment == sentiment_data.avg_sentiment
          sentiment_contribution ==
              IF avg_sentiment.k = "num" THEN avg_sentiment.v * 25 ELSE 0
          coverage_score ==
              _normalize_article_coverage(Get(sentiment_data.total_articles, 0))
          ratio_score ==
              _normalize_sentiment_ratio(Get(sentiment_data.positive_count, 0),
                                         Get(sentiment_data.negative_count, 0))
          consistency_score ==
              _normalize_sentiment_consistency(Get(sentiment_data.sentiment_volatility, 0))
          score == P(50) + sentiment_contribution
                   + Centered(coverage_score.v, 20)
                   + Centered(ratio_score.v, 20)
                   + Centered(consistency_score.v, 10)
      IN IF \/ avg_sentiment.k = "bad"
            \/ coverage_score.k = "raise"
            \/ ratio_score.k = "raise"
            \/ consistency_score.k = "raise"
         THEN P(50)
         ELSE Clamp(score)

---------------------------------------------------------------------------
(* AggregatorAgent *)

recommendation_thresholds == [buy |-> P(70), hold_upper |-> P(40), sell |-> P(40)]

\* x * 100 if x < 1 else x, in 1/100 percent, for a raw value in 1/100
Percent(x) == IF x < 100 THEN x * 100 ELSE x

PePoints(pe_ratio) ==
    IF pe_ratio.k = "num" /\ pe_ratio.v > 0
    THEN IF pe_ratio.v < 1500 THEN 25
         ELSE IF pe_ratio.v < 2000 THEN 20
         ELSE IF pe_ratio.v < 2500 THEN 15
         ELSE IF pe_ratio.v < 3500 THEN 5
         ELSE -10
    ELSE 0

PbPoints(pb_ratio) ==
    IF pb_ratio.k = "num" /\ pb_ratio.v > 0
    THEN IF pb_ratio.v < 150 THEN 15
         ELSE IF pb_ratio.v < 300 THEN 10
         ELSE IF pb_ratio.v < 500 THEN 5
         ELSE -5
    ELSE 0

RoePoints(roe) ==
    IF roe.k = "num"
    THEN LET roe_percent == Percent(roe.v) IN
         IF roe_percent > 2000 THEN 20
         ELSE IF roe_percent > 1500 THEN 15
         ELSE IF roe_percent > 1000 THEN 10
         ELSE IF roe_percent > 500 THEN 5
         ELSE -5
    ELSE 0

MarginPoints(profit_margin) ==
    IF profit_margin.k = "num"
    THEN LET margin_percent == Percent(profit_margin.v) IN
         IF margin_percent > 2000 THEN 10
         ELSE IF margin_percent > 1000 THEN 7
         ELSE IF margin_percent > 500 THEN 4
         ELSE IF margin_percent > 0 THEN 2
         ELSE -5
    ELSE 0

\* the debt points with a penalty of 25 for a high debt
DebtPointsHeavyPenalty(debt_to_equity) ==
    IF debt_to_equity.k = "num"
    THEN IF debt_to_equity.v < 30 THEN 10
         ELSE IF debt_to_equity.v < 60 THEN 7
         ELSE IF debt_to_equity.v < 100 THEN 3
         ELSE -25
    ELSE 0

DebtPoints(debt_to_equity) ==
    IF debt_to_equity.k = "num"
    THEN IF debt_to_equity.v < 30 THEN 10
         ELSE IF debt_to_equity.v < 60 THEN 7
         ELSE IF debt_to_equity.v < 100 THEN 3
         ELSE -5
    ELSE 0

GrowthPoints(revenue_growth) ==
    IF revenue_growth.k = "num"
    THEN LET growth_percent == Percent(revenue_growth.v) IN
         IF growth_percent > 2000 THEN 5
         ELSE IF growth_percent > 1000 THEN 3
         ELSE IF growth_percent < -1000 THEN -5
         ELSE 0
    ELSE 0

\* the try block raises: None.get, or a comparison with a non-number
FundScoringRaises(fundamental_data) ==
    \/ fundamental_data.k = "none"
    \/ fundamental_data.pe_ratio.k = "bad"
    \/ fundamental_data.pb_ratio.k = "bad"
    \/ fundamental_data.roe.k = "bad"
    \/ fundamental_data.profit_margin.k = "bad"
    \/ fundamental_data.debt_to_equity.k = "bad"
    \/ fundamental_data.revenue_growth.k = "bad"

_calculate_fundamental_score(fundamental_data) ==
    IF FundScoringRaises(fundamental_data) THEN P(50)
    ELSE Clamp(P(50 + PePoints(fundamental_data.pe_ratio)
                    + PbPoints(fundamental_data.pb_ratio)
                    + RoePoints(fundamental_data.roe)
                    + MarginPoints(fundamental_data.profit_margin)
                    + DebtPoints(fundamental_data.debt_to_equity)
                    + GrowthPoints(fundamental_data.revenue_growth)))

\* (avg_sentiment + 1) * 20 - 20, in 1/100 points
SentimentPoints(avg_sentiment) ==
    IF avg_sentiment.k = "num" THEN (avg_sentiment.v + 100) * 20 - P(20) ELSE 0

\* ArticlePoints with a penalty when there is no article
ArticlePointsPenalty(total_articles) ==
    IF total_articles.v >= 10 THEN 20
    ELSE IF total_articles.v >= 5 THEN 15
    ELSE IF total_articles.v >= 2 THEN 10
    ELSE IF total_articles.v >= 1 THEN 5
    ELSE -5

ArticlePoints(total_articles) ==
    IF total_articles.v >= 10 THEN 20
    ELSE IF total_articles.v >= 5 THEN 15
    ELSE IF total_articles.v >= 2 THEN 10
    ELSE IF total_articles.v >= 1 THEN 5
    ELSE 0

RatioPoints(positive_count, negative_count) ==
    LET total_sentiment_articles == positive_count.v + negative_count.v IN
    IF total_sentiment_articles > 0
    THEN IF RatioGe(positive_count.v, total_sentiment_articles, 8) THEN 20
         ELSE IF RatioGe(positive_count.v, total_sentiment_articles, 6) THEN 15
         ELSE IF RatioGe(positive_count.v, total_sentiment_articles, 4) THEN 5
         ELSE IF RatioGe(positive_count.v, total_sentiment_articles, 2) THEN -5
         ELSE -15
    ELSE 0

VolatilityPoints(sentiment_volatility) ==
    IF sentiment_volatility.v > 50 THEN -10
    ELSE IF sentiment_volatility.v > 30 THEN -5
    ELSE 0

SentScoringRaises(sentiment_data) ==
    \/ sentiment_data.k = "none"
    \/ sentiment_data.avg_sentiment.k = "bad"
    \/ sentiment_data.total_articles.k = "bad"
    \/ sentiment_data.positive_count.k = "bad"
    \/ sentiment_data.negative_count.k = "bad"
    \/ sentiment_data.sentiment_volatility.k = "bad"

_calculate_sentiment_score(sentiment_data) ==
    IF SentScoringRaises(sentiment_data) THEN P(50)
    ELSE Clamp(P(50) + SentimentPoints(sentiment_data.avg_sentiment)
                 + P(ArticlePoints(Get(sentiment_data.total_articles, 0)))
                 + P(RatioPoints(Get(sentiment_data.positive_count, 0),
                                 Get(sentiment_data.negative_count, 0)))
                 + P(VolatilityPoints(Get(sentiment_data.sentiment_volatility, 0))))

\* the recommendation with SELL drawn below 50 instead of below 40
_generate_recommendation_sell_below_50(overall_score) ==
    IF RatLe(RatOfInt(recommendation_thresholds.buy), overall_score) THEN "BUY"
    ELSE IF RatLe(RatOfInt(P(50)), overall_score) THEN "HOLD"
    ELSE "SELL"

_generate_recommendation(overall_score) ==
    IF RatLe(RatOfInt(recommendation_thresholds.buy), overall_score) THEN "BUY"
    ELSE IF RatLe(RatOfInt(recommendation_thresholds.hold_upper), overall_score) THEN "HOLD"
    ELSE "SELL"

\* round(x, 1): a rational in 1/100 rounded to the nearest 1/10 (a multiple of
\* 10 in 1/100), a tie going to the even tenth
Round1(r) ==
    LET q == r.n \div (10 * r.d)
        rem == r.n - q * 10 * r.d
    IN IF 2 * rem < 10 * r.d THEN q * 10
       ELSE IF 2 * rem > 10 * r.d THEN (q + 1) * 10
       ELSE IF q % 2 = 0 THEN q * 10
       ELSE (q + 1) * 10

\* Python truthiness of a dictionary entry: None and 0 are falsy
Truthy(x) == x.k = "bad" \/ (x.k = "num" /\ x.v # 0)

Opt(cond, clause) == IF cond THEN <<clause>> ELSE <<>>

OverallClause(overall_score) ==
    IF RatLe(RatOfInt(P(80)), overall_score) THEN "Strong overall performance"
    ELSE IF RatLe(RatOfInt(P(60)), overall_score) THEN "Good overall performance"
    ELSE IF RatLe(RatOfInt(P(40)), overall_score) THEN "Mixed performance signals"
    ELSE "Weak overall performance"

FundamentalClause(fundamental_score) ==
    IF fundamental_score >= P(70) THEN "strong fundamentals"
    ELSE IF fundamental_score >= P(50) THEN "decent fundamentals"
    ELSE "weak fundamentals"

ValuationClause(pe_ratio) ==
    IF Truthy(pe_ratio) /\ pe_ratio.v < 1500 THEN <<"attractive valuation">>
    ELSE IF Truthy(pe_ratio) /\ pe_ratio.v > 3000 THEN <<"high valuation">>
    ELSE <<>>

RoeClause(roe) ==
    IF Truthy(roe)
    THEN LET roe_percent == Percent(roe.v) IN
         IF roe_percent > 2000 THEN <<"excellent returns on equity">>
         ELSE IF roe_percent < 500 THEN <<"low returns on equity">>
         ELSE <<>>
    ELSE <<>>

SentimentClause(sentiment_score) ==
    IF sentiment_score >= P(70) THEN "positive market sentiment"
    ELSE IF sentiment_score >= P(50) THEN "neutral market sentiment"
    ELSE "negative market sentiment"

CoverageClause(total_articles) ==
    IF total_articles.v >= 10 THEN <<"good news coverage">>
    ELSE IF total_articles.v < 2 THEN <<"limited news coverage">>
    ELSE <<>>

DebtClause(debt_to_equity) ==
    Opt(Truthy(debt_to_equity) /\ debt_to_equity.v > 100, "high debt levels")

\* the try block of _generate_reasoning raises
ReasoningRaises(fundamental_data, sentiment_data) ==
    \/ fundamental_data.k = "none"
    \/ sentiment_data.k = "none"
    \/ fundamental_data.pe_ratio.k = "bad"
    \/ fundamental_data.roe.k = "bad"
    \/ sentiment_data.total_articles.k = "bad"
    \/ fundamental_data.debt_to_equity.k = "bad"

\* str.lower() on a clause: only the overall clauses hold a capital letter
LowerClause(s) ==
    CASE s = "Strong overall performance" -> "strong overall performance"
      [] s = "Good overall performance" -> "good overall performance"
      [] s = "Mixed performance signals" -> "mixed performance signals"
      [] s = "Weak overall performance" -> "weak overall performance"
      [] OTHER -> s

\* the first letter of a lower-case clause in upper case
UpperFirst(s) ==
    CASE s = "strong overall performance" -> "Strong overall performance"
      [] s = "good overall performance" -> "Good overall performance"
      [] s = "mixed performance signals" -> "Mixed performance signals"
      [] s = "weak overall performance" -> "Weak overall performance"
      [] s = "strong fundamentals" -> "Strong fundamentals"
      [] s = "decent fundamentals" -> "Decent fundamentals"
      [] s = "weak fundamentals" -> "Weak fundamentals"
      [] s = "attractive valuation" -> "Attractive valuation"
      [] s = "high valuation" -> "High valuation"
      [] s = "excellent returns on equity" -> "Excellent returns on equity"
      [] s = "low returns on equity" -> "Low returns on equity"
      [] s = "positive market sentiment" -> "Positive market sentiment"
      [] s = "neutral market sentiment" -> "Neutral market sentiment"
      [] s = "negative market sentiment" -> "Negative market sentiment"
      [] s = "good news coverage" -> "Good news coverage"
      [] s = "limited news coverage" -> "Limited news coverage"
      [] s = "high debt levels" -> "High debt levels"

\* ". ".join of the clauses from the i-th on, in lower case
RECURSIVE JoinLower(_, _)
JoinLower(parts, i) ==
    IF i > Len(parts) THEN ""
    ELSE ". " \o LowerClause(parts[i]) \o JoinLower(parts, i + 1)

\* ". ".join(reasoning_parts).capitalize(): the first letter in upper case,
\* every other letter in lower case
CapitalizedJoin(parts) ==
    UpperFirst(LowerClause(parts[1])) \o JoinLower(parts, 2)

\* "{:.1f}" of a score in 1/100 point that is a multiple of 1/10 point
Format1f(x) ==
    IF x < 0 THEN "-" \o ToString((0 - x) \div 100) \o "." \o ToString(((0 - x) % 100) \div 10)
    ELSE ToString(x \div 100) \o "." \o ToString((x % 100) \div 10)

\* the sentence without its final period
ReasoningTextNoPeriod(kind, parts, score, msg) ==
    IF kind = "clauses" THEN CapitalizedJoin(parts)
    ELSE IF kind = "fallback"
    THEN "Analysis completed with overall score of " \o Format1f(score) \o "/100"
    ELSE "Analysis failed: " \o msg

\* the string: the clauses joined and capitalized, or the fallback sentence
\* with the score it prints, or the failure message
ReasoningText(kind, parts, score, msg) ==
    IF kind = "clauses" THEN CapitalizedJoin(parts) \o "."
    ELSE IF kind = "fallback"
    THEN "Analysis completed with overall score of " \o Format1f(score) \o "/100"
    ELSE "Analysis failed: " \o msg

\* a reasoning string (text), with what it was made of: its clauses before
\* ". ".join, or the score the fallback sentence prints, or the failure message
Reasoning(kind, parts, score, msg) ==
    [kind |-> kind, parts |-> parts, score |-> score, msg |-> msg,
     text |-> ReasoningText(kind, parts, score, msg)]

_generate_reasoning(fundamental_score, sentiment_score, overall_score, fundamental_data, sentiment_data) ==
    IF ReasoningRaises(fundamental_data, sentiment_data)
    THEN Reasoning("fallback", <<>>, Round1(overall_score), "")
    ELSE Reasoning("clauses",
            <<OverallClause(overall_score), FundamentalClause(fundamental_score)>>
            \o ValuationClause(fundamental_data.pe_ratio)
            \o RoeClause(fundamental_data.roe)
            \o <<SentimentClause(sentiment_score)>>
            \o CoverageClause(Get(sentiment_data.total_articles, 0))
            \o DebtClause(fundamental_data.debt_to_equity),
            0, "")

\* str(e) of the exceptions the model raises
MsgNoneGet == "'NoneType' object has no attribute 'get'"
MsgOperand == "unsupported operand type(s) for +"
MsgCompare == "'>' not supported between instances"

\* _get_error_result with the recommendation derived from the zero score
_get_error_result_by_score(ticker, company_name, error_msg, t) ==
    [kind |-> "error",
     ticker |-> ticker,
     company_name |-> company_name,
     overall_score |-> 0,
     fundamental_score |-> 0,
     sentiment_score |-> 0,
     recommendation |-> _generate_recommendation(RatOfInt(0)),
     reasoning |-> Reasoning("failed", <<>>, 0, error_msg),
     weights_used |-> [fundamental |-> 0, sentiment |-> 0],
     analysis_timestamp |-> t,
     pe_ratio |-> NoneV, pb_ratio |-> NoneV, roe |-> NoneV,
     avg_sentiment |-> NoneV, positive_count |-> NoneV,
     negative_count |-> NoneV, total_articles |-> NoneV,
     sentiment_quality |-> "",
     error |-> error_msg]

_get_error_result(ticker, company_name, error_msg, t) ==
    [kind |-> "error",
     ticker |-> ticker,
     company_name |-> company_name,
     overall_score |-> 0,
     fundamental_score |-> 0,
     sentiment_score |-> 0,
     recommendation |-> "HOLD",
     reasoning |-> Reasoning("failed", <<>>, 0, error_msg),
     weights_used |-> [fundamental |-> 0, sentiment |-> 0],
     analysis_timestamp |-> t,
     pe_ratio |-> NoneV, pb_ratio |-> NoneV, roe |-> NoneV,
     avg_sentiment |-> NoneV, positive_count |-> NoneV,
     negative_count |-> NoneV, total_articles |-> NoneV,
     sentiment_quality |-> "",
     error |-> error_msg]

\* EffectiveWeights without the division by total_weight (weights are in 1/10)
EffectiveWeightsUnnormalized(fundamental_weight, sentiment_weight) ==
    LET total_weight == fundamental_weight + sentiment_weight IN
    IF total_weight > 0
    THEN [fundamental |-> fundamental_weight, sentiment |-> sentiment_weight,
          den |-> 10]
    ELSE [fundamental |-> 1, sentiment |-> 1, den |-> 2]

\* weights that sum to at most 1 used as they are
EffectiveWeightsAboveOne(fundamental_weight, sentiment_weight) ==
    LET total_weight == fundamental_weight + sentiment_weight IN
    IF total_weight > 10
    THEN [fundamental |-> fundamental_weight, sentiment |-> sentiment_weight,
          den |-> total_weight]
    ELSE IF total_weight > 0
    THEN [fundamental |-> fundamental_weight, sentiment |-> sentiment_weight,
          den |-> 10]
    ELSE [fundamental |-> 1, sentiment |-> 1, den |-> 2]

\* the weights after "Normalize weights to ensure they sum to 1": the pair
\* num.fundamental / den, num.sentiment / den
EffectiveWeights(fundamental_weight, sentiment_weight) ==
    LET total_weight == fundamental_weight + sentiment_weight IN
    IF total_weight > 0
    THEN [fundamental |-> fundamental_weight, sentiment |-> sentiment_weight,
          den |-> total_weight]
    ELSE [fundamental |-> 1, sentiment |-> 1, den |-> 2]

\* fundamental_score * fundamental_weight + sentiment_score * sentiment_weight
OverallScore(fundamental_score, sentiment_score, w) ==
    Rat(fundamental_score * w.fundamental + sentiment_score * w.sentiment, w.den)

aggregate_scores(ticker, company_name, fundamental_data, sentiment_data, fundamental_weight, sentiment_weight, t) ==
    IF fundamental_weight.k # "num" \/ sentiment_weight.k # "num"
    THEN _get_error_result(ticker, company_name, MsgOperand, t)
    ELSE
      LET w == EffectiveWeights(fundamental_weight.v, sentiment_weight.v)
          fundamental_score == _calculate_fundamental_score(fundamental_data)
          sentiment_score == _calculate_sentiment_score(sentiment_data)
          overall_score == OverallScore(fundamental_score, sentiment_score, w)
          recommendation == _generate_recommendation(overall_score)
          reasoning == _generate_reasoning(fundamental_score, sentiment_score,
                           overall_score, fundamental_data, sentiment_data)
      IN
      IF fundamental_data.k = "none" \/ sentiment_data.k = "none"
      THEN _get_error_result(ticker, company_name, MsgNoneGet, t)
      ELSE IF sentiment_data.total_articles.k = "bad"
      THEN _get_error_result(ticker, company_name, MsgCompare, t)
      ELSE
        [kind |-> "result",
         ticker |-> ticker,
         company_name |-> company_name,
         overall_score |-> Round1(overall_score),
         fundamental_score |-> Round1(RatOfInt(fundamental_score)),
         sentiment_score |-> Round1(RatOfInt(sentiment_score)),
         recommendation |-> recommendation,
         reasoning |-> reasoning,
         weights_used |->
             [fundamental |-> Round1(Rat(P(100) * w.fundamental, w.den)),
              sentiment |-> Round1(Rat(P(100) * w.sentiment, w.den))],
         analysis_timestamp |-> t,
         pe_ratio |-> fundamental_data.pe_ratio,
         pb_ratio |-> fundamental_data.pb_ratio,
         roe |-> fundamental_data.roe,
         avg_sentiment |-> sentiment_data.avg_sentiment,
         positive_count |-> Get(sentiment_data.positive_count, 0),
         negative_count |-> Get(sentiment_data.negative_count, 0),
         total_articles |-> Get(sentiment_data.total_articles, 0),
         sentiment_quality |->
             IF Get(sentiment_data.total_articles, 0).v > 0 THEN "good" ELSE "poor",
         error |-> ""]

\* weights.get(key, 0.5); weights are in 1/10
WeightGet(x) == IF x.k = "none" THEN Num(5) ELSE x

\* the loop of batch_aggregate from entry i on, with the results so far.
\* Evaluating the call's arguments raises AttributeError for a bundle that is
\* not a dictionary or for weights that are None; the handler then evaluates
\* stock_data.get('ticker', 'unknown') for its message, which raises again,
\* outside any try, when the bundle is not a dictionary.
RECURSIVE BatchLoop(_, _, _, _, _)
BatchLoop(stocks_data, w, i, results, t) ==
    IF i > Len(stocks_data)
    THEN [kind |-> "returned", results |-> results, msg |-> ""]
    ELSE
      LET stock_data == stocks_data[i] IN
      IF stock_data.k = "none"
      THEN [kind |-> "raised", results |-> <<>>, msg |-> MsgNoneGet]
      ELSE IF w.k = "none"
      THEN BatchLoop(stocks_data, w, i + 1, results, t)
      ELSE BatchLoop(stocks_data, w, i + 1,
              Append(results,
                  aggregate_scores(stock_data.ticker, stock_data.company_name,
                      stock_data.fundamental_data, stock_data.sentiment_data,
                      WeightGet(w.fundamental), WeightGet(w.sentiment), t)),
              t)

batch_aggregate(stocks_data, w, t) == BatchLoop(stocks_data, w, 1, <<>>, t)

\* the results argument of get_portfolio_summary: None, or a list of entries.
\* An entry is a result of aggregate_scores, or [kind |-> "none"] (None),
\* "noscore" (a dictionary without the keys 'overall_score' and
\* 'recommendation') or "badscore" (an 'overall_score' that is not a number).
ResultList(items) == [k |-> "list", items |-> items]
ResultsNone == [k |-> "none", items |-> <<>>]

MsgNoResults == "No results to summarize"
MsgSummaryFailed == "Summary calculation failed"

\* 'overall_score' in r, 'recommendation' in r
HasScore(r) == r.kind \in {"result", "error", "badscore"}

\* the try block raises: the test 'overall_score' in None, or np.mean of a
\* value that is not a number
SummaryRaises(results) ==
    \E i \in 1..Len(results.items) : results.items[i].kind \in {"none", "badscore"}

\* x.get('overall_score', default)
ScoreKey(x, default) == IF HasScore(x) THEN x.overall_score ELSE default

\* the first entry of the list
first_entry(items) == items[1]

\* max(results, key = overall_score or 0): the first entry with the largest key
top_performer(items) ==
    items[CHOOSE i \in 1..Len(items) :
            /\ \A j \in 1..Len(items) : ScoreKey(items[j], 0) <= ScoreKey(items[i], 0)
            /\ \A j \in 1..(i - 1) : ScoreKey(items[j], 0) < ScoreKey(items[i], 0)]

\* min(results, key = overall_score or 100): the first entry with the smallest key
worst_performer(items) ==
    items[CHOOSE i \in 1..Len(items) :
            /\ \A j \in 1..Len(items) : ScoreKey(items[j], P(100)) >= ScoreKey(items[i], P(100))
            /\ \A j \in 1..(i - 1) : ScoreKey(items[j], P(100)) > ScoreKey(items[i], P(100))]

\* recommendations.count(rec)
RecommendationCount(items, rec) ==
    Cardinality({i \in 1..Len(items) : HasScore(items[i]) /\ items[i].recommendation = rec})

\* round(np.mean(scores), 1) if scores else 0
average_score(items) ==
    LET n == Cardinality({i \in 1..Len(items) : HasScore(items[i])})
        total == SumTo([i \in 1..Len(items) |-> ScoreKey(items[i], 0)], Len(items))
    IN IF n > 0 THEN Round1(Rat(total, n)) ELSE 0

\* get_portfolio_summary without its try/except: the exception propagates
get_portfolio_summary_unguarded(results) ==
    IF results.k = "none" \/ Len(results.items) = 0
    THEN [error |-> MsgNoResults]
    ELSE IF SummaryRaises(results)
    THEN RaiseV
    ELSE [total_stocks |-> Len(results.items),
          average_score |-> average_score(results.items),
          recommendation_distribution |->
              [BUY |-> RecommendationCount(results.items, "BUY"),
               HOLD |-> RecommendationCount(results.items, "HOLD"),
               SELL |-> RecommendationCount(results.items, "SELL")],
          top_performer |-> top_performer(results.items),
          worst_performer |-> worst_performer(results.items)]

\* the summary, or the dictionary {'error': message}; score_std (np.std, a
\* square root of the scores np.mean averages) is not part of the record
get_portfolio_summary(results) ==
    IF results.k = "none" \/ Len(results.items) = 0
    THEN [error |-> MsgNoResults]
    ELSE IF SummaryRaises(results)
    THEN [error |-> MsgSummaryFailed]
    ELSE [total_stocks |-> Len(results.items),
          average_score |-> average_score(results.items),
          recommendation_distribution |->
              [BUY |-> RecommendationCount(results.items, "BUY"),
               HOLD |-> RecommendationCount(results.items, "HOLD"),
               SELL |-> RecommendationCount(results.items, "SELL")],
          top_performer |-> top_performer(results.items),
          worst_performer |-> worst_performer(results.items)]

---------------------------------------------------------------------------
(* The records, weights and bundles the operations are called with *)

Nums(S) == {Num(x) : x \in S}

FundDict(pe, pb, roe, de, pm, rg, err) ==
    [k |-> "dict", error |-> err, pe_ratio |-> pe, pb_ratio |-> pb, roe |-> roe,
     debt_to_equity |-> de, profit_margin |-> pm, revenue_growth |-> rg]

\* None, {} and {'error': msg}
FundNone == [FundDict(NoneV, NoneV, NoneV, NoneV, NoneV, NoneV, FALSE) EXCEPT !.k = "none"]
FundEmpty == [FundDict(NoneV, NoneV, NoneV, NoneV, NoneV, NoneV, FALSE) EXCEPT !.k = "empty"]
FundError == FundDict(NoneV, NoneV, NoneV, NoneV, NoneV, NoneV, TRUE)

\* every band of every table, its edges included
PeValues == {NoneV, BadV} \cup Nums({-500, 0, 1000, 1500, 1800, 2000, 2200, 2500,
                                     3000, 3200, 3500, 5000, 5480, 6000})
PbValues == {NoneV, BadV} \cup Nums({-100, 0, 100, 150, 200, 300, 400, 500, 700,
                                     800, 900, 1400, 2000})
RoeValues == {NoneV, BadV} \cup Nums({-500, -150, -100, -10, 0, 3, 5, 7, 10, 12,
                                      15, 18, 20, 25, 99, 100, 101, 300, 500, 800, 1000, 1200, 1500,
                                      1800, 2000, 2500})
DebtValues == {NoneV, BadV} \cup Nums({-50, 0, 20, 30, 45, 60, 80, 100, 120, 150,
                                       170, 550, 600})
MarginValues == {NoneV, BadV} \cup Nums({-500, -150, -100, -5, 0, 1, 2, 3, 5, 7,
                                         10, 15, 20, 30, 100, 150, 200, 400, 500, 800, 1000, 2000, 2500})
GrowthValues == {NoneV, BadV} \cup Nums({-5000, -1500, -1000, -700, -500, -101, -100,
                                         -20, -10, -7, -5, -3, 0, 3, 5, 7, 10, 15,
                                         20, 25, 30, 50, 100, 101, 500, 1000, 1500,
                                         2000, 3000, 4000})

\* one metric present, over all its values
FundSingle ==
    {FundDict(x, NoneV, NoneV, NoneV, NoneV, NoneV, FALSE) : x \in PeValues}
    \cup {FundDict(NoneV, x, NoneV, NoneV, NoneV, NoneV, FALSE) : x \in PbValues}
    \cup {FundDict(NoneV, NoneV, x, NoneV, NoneV, NoneV, FALSE) : x \in RoeValues}
    \cup {FundDict(NoneV, NoneV, NoneV, x, NoneV, NoneV, FALSE) : x \in DebtValues}
    \cup {FundDict(NoneV, NoneV, NoneV, NoneV, x, NoneV, FALSE) : x \in MarginValues}
    \cup {FundDict(NoneV, NoneV, NoneV, NoneV, NoneV, x, FALSE) : x \in GrowthValues}

\* combinations of present, absent, invalid and non-numeric metrics
FundMixed ==
    {FundDict(pe, pb, roe, de, pm, rg, err) :
        pe \in {NoneV, BadV} \cup Nums({0, 1000, 3000, 5480}),
        pb \in {NoneV} \cup Nums({100, 900}),
        roe \in {NoneV} \cup Nums({-10, 3, 25}),
        de \in {NoneV} \cup Nums({20, 170}),
        pm \in {NoneV} \cup Nums({-5, 15}),
        rg \in {NoneV} \cup Nums({-20, 25}),
        err \in BOOLEAN}

FundRecords == {FundNone, FundEmpty} \cup FundSingle \cup FundMixed

SentDict(avg, total, pos, neg, vol, err) ==
    [k |-> "dict", error |-> err, avg_sentiment |-> avg, total_articles |-> total,
     positive_count |-> pos, negative_count |-> neg, sentiment_volatility |-> vol]

SentNone == [SentDict(NoneV, NoneV, NoneV, NoneV, NoneV, FALSE) EXCEPT !.k = "none"]
SentEmpty == [SentDict(NoneV, NoneV, NoneV, NoneV, NoneV, FALSE) EXCEPT !.k = "empty"]
SentError == SentDict(NoneV, NoneV, NoneV, NoneV, NoneV, TRUE)

SentMixed ==
    {SentDict(avg, total, pos, neg, vol, err) :
        avg \in {NoneV, BadV} \cup Nums({-100, -30, 0, 37, 100, 220}),
        total \in {NoneV, BadV} \cup Nums({0, 1, 3, 7, 12, 20}),
        pos \in {NoneV, BadV} \cup Nums({-1, 0, 1, 4}),
        neg \in {NoneV} \cup Nums({0, 1, 4}),
        vol \in {NoneV, BadV} \cup Nums({10, 25, 40, 60}),
        err \in BOOLEAN}

SentRecords == {SentNone, SentEmpty} \cup SentMixed

\* the records aggregate_scores is called with
AggFund ==
    {FundNone, FundEmpty, FundError,
     FundDict(BadV, NoneV, NoneV, NoneV, NoneV, NoneV, FALSE),
     FundDict(Num(1000), Num(100), Num(25), Num(120), Num(30), Num(25), FALSE),
     FundDict(Num(3200), Num(400), Num(12), Num(100), Num(3), Num(-20), FALSE),
     FundDict(NoneV, NoneV, BadV, NoneV, NoneV, NoneV, FALSE),
     FundDict(Num(5480), Num(900), Num(-10), Num(170), Num(-5), Num(-20), FALSE)}
    \cup {FundDict(pe, NoneV, roe, NoneV, pm, NoneV, FALSE) :
            pe \in {NoneV} \cup Nums({-500, 0, 1000, 2200, 4000}),
            roe \in {NoneV} \cup Nums({3, 25}),
            pm \in {NoneV} \cup Nums({7})}

AggSent ==
    {SentNone, SentEmpty, SentError}
    \cup {SentDict(avg, total, pn[1], pn[2], NoneV, FALSE) :
            avg \in {NoneV} \cup Nums({-100, 100}),
            total \in {NoneV, BadV} \cup Nums({12}),
            pn \in {<<NoneV, NoneV>>, <<Num(4), Num(1)>>, <<Num(0), Num(4)>>}}

\* weights in 1/10: non-numeric, negative, zero, and positive of any sum
AggWeights == {BadV} \cup Nums({-10, 0, 1, 10, 30})

Tickers == {"AAA", "BBB"}

Bundle(ticker, fundamental_data, sentiment_data) ==
    [k |-> "dict", ticker |-> ticker, company_name |-> ticker,
     fundamental_data |-> fundamental_data, sentiment_data |-> sentiment_data]

\* a bundle that is None (or any value without .get)
BundleNone == [Bundle("", FundEmpty, SentEmpty) EXCEPT !.k = "none"]

\* a missing 'fundamental_data' or 'sentiment_data' key reads as {}
BundleSet ==
    {BundleNone}
    \cup {Bundle(t, f, s) :
            t \in Tickers,
            f \in {FundNone, FundEmpty,
                   FundDict(Num(1000), Num(100), Num(25), Num(120), Num(30), Num(25), FALSE)},
            s \in {SentEmpty,
                   SentDict(Num(100), Num(12), Num(4), Num(1), NoneV, FALSE)}}

WeightsDict(f, s) == [k |-> "dict", fundamental |-> f, sentiment |-> s]
WeightsNone == [WeightsDict(NoneV, NoneV) EXCEPT !.k = "none"]
BatchWeights == {WeightsNone, WeightsDict(NoneV, NoneV), WeightsDict(Num(10), Num(30))}

\* the entries get_portfolio_summary is called with: results of
\* aggregate_scores (a BUY, two HOLD of equal score, a SELL, an error result)
\* and entries that are not results
SummaryEntries ==
    {aggregate_scores("AAA", "AAA",
         FundDict(Num(1000), Num(100), Num(25), Num(120), Num(30), Num(25), FALSE),
         SentDict(Num(100), Num(12), Num(4), Num(1), NoneV, FALSE), Num(10), Num(10), 0),
     aggregate_scores("AAA", "AAA", FundEmpty, SentEmpty, Num(10), Num(10), 0),
     aggregate_scores("BBB", "BBB", FundEmpty, SentEmpty, Num(10), Num(10), 0),
     aggregate_scores("BBB", "BBB",
         FundDict(Num(4000), NoneV, Num(3), NoneV, NoneV, NoneV, FALSE),
         SentDict(Num(-100), NoneV, Num(0), Num(4), NoneV, FALSE), Num(10), Num(10), 0),
     aggregate_scores("AAA", "AAA", FundNone, SentEmpty, Num(10), Num(10), 0),
     [kind |-> "none"], [kind |-> "noscore"], [kind |-> "badscore"]}

MaxResults == 3

MaxBatch == 2
MaxTime == 1

RECURSIVE SeqsUpTo(_, _)
SeqsUpTo(S, n) ==
    IF n = 0 THEN {<<>>}
    ELSE LET shorter == SeqsUpTo(S, n - 1) IN
         shorter \cup {Append(q, x) : q \in shorter, x \in S}

---------------------------------------------------------------------------
(* State: the operation called last (op), its arguments (arg for a single   *)
(* value, fund, sent, weights, bundles, results_arg) and what it returned    *)
(* (ret); prev is what the call before returned when the same call is made   *)
(* twice; now is the clock time.time() reads.  memory_cache is the           *)
(* dictionary of the CacheManager and cache_files its cache directory;       *)
(* stored, last_set and calls record the calls made on it.                   *)

---------------------------------------------------------------------------
(* utils/cache_manager.py (CacheManager).                                  *)
(* A key is the sequence of its characters.  The data of an entry is the   *)
(* repr of the Python value: "None", "x", the tuple "(1, 2)", which json   *)
(* writes as the list "[1, 2]", and the dictionary "{(1, 2): 3}", whose    *)
(* tuple key makes json.dump raise after it has begun to write.  The cache *)
(* directory is a function from the file name (without '.json') to the     *)
(* content of the file.  Time is the integer clock now, in seconds.        *)

default_ttl == 3600

\* a cache entry, no entry (a key not in the dictionary, a file that does
\* not exist), and a file that json.load rejects
Entry(data, timestamp, ttl) == [k |-> "entry", data |-> data, timestamp |-> timestamp, ttl |-> ttl]
NoEntry == [k |-> "absent"]
Corrupted == [k |-> "corrupted"]

\* json.dump followed by json.load: a tuple comes back as a list
JsonRoundTrip(data) == IF data = "(1, 2)" THEN "[1, 2]" ELSE data

\* the entry that json.load reads from the file json.dump wrote
JsonEntry(entry) == [entry EXCEPT !.data = JsonRoundTrip(entry.data)]

\* json.dump(cache_entry, f, default=str) raises: a key that is not a string
\* or a number is not passed to default
DumpRaises(data) == data = "{(1, 2): 3}"

\* str.isalnum() on one character
isalnum(c) ==
    c \in {"a", "b", "c", "d", "e", "f", "g", "h", "i", "j", "k", "l", "m",
           "n", "o", "p", "q", "r", "s", "t", "u", "v", "w", "x", "y", "z",
           "0", "1", "2", "3", "4", "5", "6", "7", "8", "9"}

SafeChar(c) == isalnum(c) \/ c \in {"_", "-"}

\* the file name of a key is the key without its other characters
_get_cache_file_path(key) == SelectSeq(key, SafeChar)

_is_valid(cache_entry, ttl, t) ==
    LET limit == IF ttl = NoneV THEN cache_entry.ttl ELSE ttl.v
    IN (t - cache_entry.timestamp) < limit

\* get: the value returned and the cache it leaves
get(memory, files, key, ttl, t) ==
    LET hit == memory[key].k = "entry"
        valid == hit /\ _is_valid(memory[key], ttl, t)
        removed == IF hit THEN [memory EXCEPT ![key] = NoEntry] ELSE memory
        file_path == _get_cache_file_path(key)
        cache_entry == files[file_path]
    IN IF valid
       THEN [ret |-> memory[key].data, memory |-> memory, files |-> files]
       ELSE IF cache_entry.k = "absent"
       THEN [ret |-> "None", memory |-> removed, files |-> files]
       ELSE IF cache_entry.k = "entry" /\ _is_valid(cache_entry, ttl, t)
       THEN [ret |-> cache_entry.data,
             memory |-> [removed EXCEPT ![key] = cache_entry],
             files |-> files]
       ELSE [ret |-> "None", memory |-> removed,
             files |-> [files EXCEPT ![file_path] = NoEntry]]

\* set: the entry goes to the dictionary first, then to the file; io is what
\* the file system does: "ok", or "open" when the file cannot be opened
set(memory, files, key, data, ttl, t, io) ==
    LET cache_entry == Entry(data, t, IF ttl = NoneV THEN default_ttl ELSE ttl.v)
        stored_memory == [memory EXCEPT ![key] = cache_entry]
        file_path == _get_cache_file_path(key)
    IN IF io = "open"
       THEN [ret |-> FALSE, memory |-> stored_memory, files |-> files]
       ELSE IF DumpRaises(data)
       THEN [ret |-> FALSE, memory |-> stored_memory,
             files |-> [files EXCEPT ![file_path] = Corrupted]]
       ELSE [ret |-> TRUE, memory |-> stored_memory,
             files |-> [files EXCEPT ![file_path] = JsonEntry(cache_entry)]]

invalidate(memory, files, key) ==
    [ret |-> TRUE,
     memory |-> [memory EXCEPT ![key] = NoEntry],
     files |-> [files EXCEPT ![_get_cache_file_path(key)] = NoEntry]]

\* cleanup_expired: the expired keys of the dictionary, then the expired and
\* the corrupted files, each counted
cleanup_expired(memory, files, t) ==
    LET expired_keys == {key \in DOMAIN memory :
                            memory[key].k = "entry" /\ ~_is_valid(memory[key], NoneV, t)}
        removed_files == {p \in DOMAIN files :
                            \/ files[p].k = "corrupted"
                            \/ files[p].k = "entry" /\ ~_is_valid(files[p], NoneV, t)}
    IN [ret |-> Cardinality(expired_keys) + Cardinality(removed_files),
        memory |-> [key \in DOMAIN memory |->
                        IF key \in expired_keys THEN NoEntry ELSE memory[key]],
        files |-> [p \in DOMAIN files |->
                        IF p \in removed_files THEN NoEntry ELSE files[p]]]

\* the outcome of a call: a value returned or an exception raised, with the
\* number of times func was invoked
Outcome(kind, value, func_calls) == [k |-> kind, v |-> value, func_calls |-> func_calls]

\* cached_call: first and second are what func does when it is invoked the
\* first and the second time: "raise", or the value it returns
cached_call(memory, files, key, first, second, ttl, t, io) ==
    LET got == get(memory, files, key, ttl, t) IN
    IF got.ret # "None"
    THEN [ret |-> Outcome("value", got.ret, 0), memory |-> got.memory,
          files |-> got.files, set |-> FALSE]
    ELSE IF first = "raise"
    THEN [ret |-> IF second = "raise" THEN Outcome("raise", "None", 2)
                  ELSE Outcome("value", second, 2),
          memory |-> got.memory, files |-> got.files, set |-> FALSE]
    ELSE LET put == set(got.memory, got.files, key, first, ttl, t, io)
         IN [ret |-> Outcome("value", first, 1), memory |-> put.memory,
             files |-> put.files, set |-> put.ret]

\* the keys, two of them with one file name
Keys == {<<"a", ".", "b">>, <<"a", "b">>, <<"k">>}
FileNames == {_get_cache_file_path(key) : key \in Keys}
DataValues == {"x", "(1, 2)", "{(1, 2): 3}"}
FuncBehaviours == DataValues \cup {"None", "raise"}
TtlValues == {NoneV, Num(1)}
IoOutcomes == {"ok", "open"}

\* the number of calls made on one CacheManager
MaxCalls == 3

\* the cache after CacheManager() on a new directory
CacheConstructed ==
    /\ memory_cache = [key \in Keys |-> NoEntry]
    /\ cache_files = [p \in FileNames |-> NoEntry]
    /\ stored = [key \in Keys |-> {}]
    /\ last_set = [key \in Keys |-> NoEntry]
    /\ calls = 0

Idle ==
    /\ pc = "idle"
    /\ op = ""
    /\ arg = NoneV
    /\ fund = FundNone
    /\ sent = SentNone
    /\ weights = WeightsNone
    /\ bundles = <<>>
    /\ results_arg = ResultsNone
    /\ ret = NoneV
    /\ prev = NoneV

Init == Idle /\ now = 0 /\ CacheConstructed

NormalizeFundamental ==
    /\ pc = "idle"
    /\ \E f \in FundRecords :
        /\ fund' = f
        /\ ret' = normalize_fundamental_score(f)
    /\ op' = "normalize_fundamental_score"
    /\ pc' = "done"
    /\ UNCHANGED <<arg, sent, weights, bundles, results_arg, prev, now>>
    /\ UNCHANGED cacheVars

\* the per-metric normalizers, called on one raw value
NormalizePeRatio ==
    /\ pc = "idle"
    /\ \E x \in PeValues :
        /\ arg' = x
        /\ ret' = _normalize_pe_ratio(x)
    /\ op' = "_normalize_pe_ratio"
    /\ pc' = "done"
    /\ UNCHANGED <<fund, sent, weights, bundles, results_arg, prev, now>>
    /\ UNCHANGED cacheVars

NormalizePbRatio ==
    /\ pc = "idle"
    /\ \E x \in PbValues :
        /\ arg' = x
        /\ ret' = _normalize_pb_ratio(x)
    /\ op' = "_normalize_pb_ratio"
    /\ pc' = "done"
    /\ UNCHANGED <<fund, sent, weights, bundles, results_arg, prev, now>>
    /\ UNCHANGED cacheVars

NormalizeRoe ==
    /\ pc = "idle"
    /\ \E x \in RoeValues :
        /\ arg' = x
        /\ ret' = _normalize_roe(x)
    /\ op' = "_normalize_roe"
    /\ pc' = "done"
    /\ UNCHANGED <<fund, sent, weights, bundles, results_arg, prev, now>>
    /\ UNCHANGED cacheVars

NormalizeDebtToEquity ==
    /\ pc = "idle"
    /\ \E x \in DebtValues :
        /\ arg' = x
        /\ ret' = _normalize_debt_to_equity(x)
    /\ op' = "_normalize_debt_to_equity"
    /\ pc' = "done"
    /\ UNCHANGED <<fund, sent, weights, bundles, results_arg, prev, now>>
    /\ UNCHANGED cacheVars

NormalizeProfitMargin ==
    /\ pc = "idle"
    /\ \E x \in MarginValues :
        /\ arg' = x
        /\ ret' = _normalize_profit_margin(x)
    /\ op' = "_normalize_profit_margin"
    /\ pc' = "done"
    /\ UNCHANGED <<fund, sent, weights, bundles, results_arg, prev, now>>
    /\ UNCHANGED cacheVars

NormalizeRevenueGrowth ==
    /\ pc = "idle"
    /\ \E x \in GrowthValues :
        /\ arg' = x
        /\ ret' = _normalize_revenue_growth(x)
    /\ op' = "_normalize_revenue_growth"
    /\ pc' = "done"
    /\ UNCHANGED <<fund, sent, weights, bundles, results_arg, prev, now>>
    /\ UNCHANGED cacheVars

NormalizeSentiment ==
    /\ pc = "idle"
    /\ \E s \in SentRecords :
        /\ sent' = s
        /\ ret' = normalize_sentiment_score(s)
    /\ op' = "normalize_sentiment_score"
    /\ pc' = "done"
    /\ UNCHANGED <<arg, fund, weights, bundles, results_arg, prev, now>>
    /\ UNCHANGED cacheVars

CalculateFundamental ==
    /\ pc = "idle"
    /\ \E f \in FundRecords :
        /\ fund' = f
        /\ ret' = _calculate_fundamental_score(f)
    /\ op' = "_calculate_fundamental_score"
    /\ pc' = "done"
    /\ UNCHANGED <<arg, sent, weights, bundles, results_arg, prev, now>>
    /\ UNCHANGED cacheVars

CalculateSentiment ==
    /\ pc = "idle"
    /\ \E s \in SentRecords :
        /\ sent' = s
        /\ ret' = _calculate_sentiment_score(s)
    /\ op' = "_calculate_sentiment_score"
    /\ pc' = "done"
    /\ UNCHANGED <<arg, fund, weights, bundles, results_arg, prev, now>>
    /\ UNCHANGED cacheVars

AggregateScores ==
    /\ pc = "idle"
    /\ \E f \in AggFund, s \in AggSent, fw \in AggWeights, sw \in AggWeights :
        /\ fund' = f
        /\ sent' = s
        /\ weights' = WeightsDict(fw, sw)
        /\ ret' = aggregate_scores("AAA", "AAA", f, s, fw, sw, now)
    /\ op' = "aggregate_scores"
    /\ pc' = "done"
    /\ UNCHANGED <<arg, bundles, results_arg, prev, now>>
    /\ UNCHANGED cacheVars

\* a second call with the arguments of the call that has just returned; time
\* passes between the two calls, and time.time() is read again
AggregateScoresAgain ==
    /\ pc = "done"
    /\ op = "aggregate_scores"
    /\ prev = NoneV
    /\ \E t \in now..MaxTime :
        /\ now' = t
        /\ ret' = aggregate_scores("AAA", "AAA", fund, sent,
                                   weights.fundamental, weights.sentiment, t)
    /\ prev' = ret
    /\ UNCHANGED <<pc, op, arg, fund, sent, weights, bundles, results_arg>>
    /\ UNCHANGED cacheVars

BatchAggregate ==
    /\ pc = "idle"
    /\ \E b \in SeqsUpTo(BundleSet, MaxBatch), w \in BatchWeights :
        /\ bundles' = b
        /\ weights' = w
        /\ ret' = batch_aggregate(b, w, now)
    /\ op' = "batch_aggregate"
    /\ pc' = "done"
    /\ UNCHANGED <<arg, fund, sent, results_arg, prev, now>>
    /\ UNCHANGED cacheVars

GetPortfolioSummary ==
    /\ pc = "idle"
    /\ \E r \in {ResultsNone} \cup {ResultList(q) : q \in SeqsUpTo(SummaryEntries, MaxResults)} :
        /\ results_arg' = r
        /\ ret' = get_portfolio_summary(r)
    /\ op' = "get_portfolio_summary"
    /\ pc' = "done"
    /\ UNCHANGED <<arg, fund, sent, weights, bundles, prev, now>>
    /\ UNCHANGED cacheVars

\* the caller takes the result; the objects keep no state between calls
Return ==
    /\ pc = "done"
    /\ pc' = "idle"
    /\ op' = ""
    /\ arg' = NoneV
    /\ fund' = FundNone
    /\ sent' = SentNone
    /\ weights' = WeightsNone
    /\ bundles' = <<>>
    /\ results_arg' = ResultsNone
    /\ ret' = NoneV
    /\ prev' = NoneV
    /\ UNCHANGED now
    /\ UNCHANGED cacheVars

Tick ==
    /\ pc = "idle"
    /\ now < MaxTime
    /\ now' = now + 1
    /\ UNCHANGED <<pc, op, arg, fund, sent, weights, bundles, results_arg, ret, prev>>
    /\ UNCHANGED cacheVars

Next ==
    \/ NormalizePeRatio
    \/ NormalizePbRatio
    \/ NormalizeRoe
    \/ NormalizeDebtToEquity
    \/ NormalizeProfitMargin
    \/ NormalizeRevenueGrowth
    \/ NormalizeFundamental
    \/ NormalizeSentiment
    \/ CalculateFundamental
    \/ CalculateSentiment
    \/ AggregateScores
    \/ AggregateScoresAgain
    \/ BatchAggregate
    \/ GetPortfolioSummary
    \/ Return
    \/ Tick

Spec == Init /\ [][Next]_vars

---------------------------------------------------------------------------
(* The calls on the CacheManager.  stored and last_set record the history  *)
(* of the calls: the data every set was given, by key, and the entry of    *)
(* the most recent set of a key that returned True, until the key is       *)
(* invalidated; calls counts the calls.                                    *)

aggVars == <<fund, sent, weights, bundles, results_arg, prev>>

CacheGet ==
    /\ pc = "idle"
    /\ calls < MaxCalls
    /\ calls' = calls + 1
    /\ \E key \in Keys, ttl \in TtlValues :
        LET r == get(memory_cache, cache_files, key, ttl, now) IN
        /\ arg' = [key |-> key, ttl |-> ttl]
        /\ ret' = r.ret
        /\ memory_cache' = r.memory
        /\ cache_files' = r.files
    /\ op' = "get"
    /\ pc' = "done"
    /\ UNCHANGED <<stored, last_set, now>>
    /\ UNCHANGED aggVars

CacheSet ==
    /\ pc = "idle"
    /\ calls < MaxCalls
    /\ calls' = calls + 1
    /\ \E key \in Keys, data \in DataValues, ttl \in TtlValues, io \in IoOutcomes :
        LET r == set(memory_cache, cache_files, key, data, ttl, now, io) IN
        /\ arg' = [key |-> key, data |-> data, ttl |-> ttl]
        /\ ret' = r.ret
        /\ memory_cache' = r.memory
        /\ cache_files' = r.files
        /\ stored' = [stored EXCEPT ![key] = @ \cup {data}]
        /\ last_set' = IF r.ret THEN [last_set EXCEPT ![key] = r.memory[key]] ELSE last_set
    /\ op' = "set"
    /\ pc' = "done"
    /\ UNCHANGED now
    /\ UNCHANGED aggVars

CacheInvalidate ==
    /\ pc = "idle"
    /\ calls < MaxCalls
    /\ calls' = calls + 1
    /\ \E key \in Keys :
        LET r == invalidate(memory_cache, cache_files, key) IN
        /\ arg' = [key |-> key]
        /\ ret' = r.ret
        /\ memory_cache' = r.memory
        /\ cache_files' = r.files
        /\ last_set' = [last_set EXCEPT ![key] = NoEntry]
    /\ op' = "invalidate"
    /\ pc' = "done"
    /\ UNCHANGED <<stored, now>>
    /\ UNCHANGED aggVars

CleanupExpired ==
    /\ pc = "idle"
    /\ calls < MaxCalls
    /\ calls' = calls + 1
    /\ LET r == cleanup_expired(memory_cache, cache_files, now) IN
        /\ ret' = r.ret
        /\ memory_cache' = r.memory
        /\ cache_files' = r.files
    /\ arg' = NoneV
    /\ op' = "cleanup_expired"
    /\ pc' = "done"
    /\ UNCHANGED <<stored, last_set, now>>
    /\ UNCHANGED aggVars

CachedCall ==
    /\ pc = "idle"
    /\ calls < MaxCalls
    /\ calls' = calls + 1
    /\ \E key \in Keys, first \in FuncBehaviours, second \in FuncBehaviours,
          ttl \in TtlValues, io \in IoOutcomes :
        LET r == cached_call(memory_cache, cache_files, key, first, second, ttl, now, io) IN
        /\ arg' = [key |-> key, ttl |-> ttl]
        /\ ret' = r.ret
        /\ memory_cache' = r.memory
        /\ cache_files' = r.files
        /\ stored' = IF r.ret.func_calls = 1
                     THEN [stored EXCEPT ![key] = @ \cup {first}] ELSE stored
        /\ last_set' = IF r.set THEN [last_set EXCEPT ![key] = r.memory[key]] ELSE last_set
    /\ op' = "cached_call"
    /\ pc' = "done"
    /\ UNCHANGED now
    /\ UNCHANGED aggVars

CacheNext ==
    \/ CacheGet
    \/ CacheSet
    \/ CacheInvalidate
    \/ CleanupExpired
    \/ CachedCall
    \/ Return
    \/ Tick

CacheSpec == Init /\ [][CacheNext]_vars


---------------------------------------------------------------------------
(* Properties *)

Done(name) == pc = "done" /\ op = name

\* the metric entries of a record
FundFields(r) == {r.pe_ratio, r.pb_ratio, r.roe, r.debt_to_equity,
                  r.profit_margin, r.revenue_growth}
SentFields(r) == {r.avg_sentiment, r.total_articles, r.positive_count,
                  r.negative_count, r.sentiment_volatility}

\* C1: the fundamental and the sentiment composite lie in [0,100], for the
\* Normalizer's normalize_* and for the Aggregator's _calculate_*, whatever
\* the record holds (present, absent, zero, negative or non-numeric metrics).
C1_CompositesInRange ==
    /\ Done("normalize_fundamental_score") =>
          RatLe(RatOfInt(0), ret) /\ RatLe(ret, RatOfInt(P(100)))
    /\ Done("normalize_sentiment_score") => 0 <= ret /\ ret <= P(100)
    /\ Done("_calculate_fundamental_score") => 0 <= ret /\ ret <= P(100)
    /\ Done("_calculate_sentiment_score") => 0 <= ret /\ ret <= P(100)

\* a record whose points add up to more than 100 is returned as 100
C1_Witness ==
    /\ Done("_calculate_fundamental_score")
    /\ fund.pe_ratio = Num(1000) /\ fund.pb_ratio = Num(100) /\ fund.roe = Num(25)
    /\ fund.debt_to_equity = Num(20) /\ fund.profit_margin = Num(15)
    /\ ret = P(100)

\* C2: the overall_score aggregate_scores returns lies in [0,100] for every
\* weight pair, negative weights included.
C2_OverallInRange ==
    Done("aggregate_scores") =>
        0 <= ret.overall_score /\ ret.overall_score <= P(100)

\* C3: with fw + sw > 0 the effective weights are fw/(fw+sw) and sw/(fw+sw),
\* which sum to 1; otherwise both are 0.5; overall_score is the blend of the
\* two scores with the effective weights, rounded to one decimal.
C3_Renormalization ==
    (Done("aggregate_scores") /\ ret.kind = "result") =>
        LET fw == weights.fundamental.v
            sw == weights.sentiment.v
            f == _calculate_fundamental_score(fund)
            s == _calculate_sentiment_score(sent)
            w == EffectiveWeights(fw, sw)
        IN /\ w.fundamental + w.sentiment = w.den
           /\ IF fw + sw > 0
              THEN /\ ret.overall_score = Round1(Rat(f * fw + s * sw, fw + sw))
                   /\ ret.weights_used.fundamental = Round1(Rat(P(100) * fw, fw + sw))
                   /\ ret.weights_used.sentiment = Round1(Rat(P(100) * sw, fw + sw))
              ELSE /\ ret.overall_score = Round1(Rat(f + s, 2))
                   /\ ret.weights_used.fundamental = P(50)
                   /\ ret.weights_used.sentiment = P(50)

\* a pair that does not sum to 1 is renormalized: scores 69 and 100 blended 1:3
C3_Witness ==
    /\ Done("aggregate_scores") /\ ret.kind = "result"
    /\ weights = WeightsDict(Num(10), Num(30))
    /\ ret.fundamental_score = P(69) /\ ret.sentiment_score = P(100)
    /\ ret.overall_score = 9220
    /\ ret.weights_used = [fundamental |-> P(25), sentiment |-> P(75)]

\* C4: the recommendation of a non-error result follows from the overall_score
\* the result reports: BUY iff >= 70, HOLD iff in [40, 70), SELL iff < 40.
C4_RecommendationOfReportedScore ==
    (Done("aggregate_scores") /\ ret.kind = "result") =>
        /\ ret.recommendation = "BUY" <=> ret.overall_score >= P(70)
        /\ ret.recommendation = "HOLD" <=>
              (P(40) <= ret.overall_score /\ ret.overall_score < P(70))
        /\ ret.recommendation = "SELL" <=> ret.overall_score < P(40)

\* a record without usable metrics: {} or a dictionary with no metric entry
\* (such as one that holds only the error marker)
NoMetrics(r, fields) == r.k \in {"empty", "dict"} /\ fields \subseteq {NoneV}

\* C5: when neither record carries a usable metric, aggregate_scores returns
\* 50 / 50 / 50, HOLD and a non-empty reasoning, for every (numeric) weight pair.
C5_NeutralWhenNoMetrics ==
    (/\ Done("aggregate_scores")
     /\ NoMetrics(fund, FundFields(fund)) /\ NoMetrics(sent, SentFields(sent))
     /\ weights.fundamental.k = "num" /\ weights.sentiment.k = "num") =>
        /\ ret.kind = "result"
        /\ ret.fundamental_score = P(50)
        /\ ret.sentiment_score = P(50)
        /\ ret.overall_score = P(50)
        /\ ret.recommendation = "HOLD"
        /\ ret.reasoning.kind = "clauses" /\ Len(ret.reasoning.parts) > 0

\* two error markers under a negative and a positive weight
C5_Witness ==
    /\ Done("aggregate_scores")
    /\ fund = FundError /\ sent = SentError
    /\ weights = WeightsDict(Num(-10), Num(30))
    /\ ret.overall_score = P(50) /\ ret.recommendation = "HOLD"

\* C6: normalize_fundamental_score and normalize_sentiment_score return the
\* neutral 50 for None, for {}, for a record with an error marker and for a
\* record on which a step raises (a non-numeric metric).
C6_NeutralOnFailure ==
    /\ (/\ Done("normalize_fundamental_score")
        /\ \/ fund.k \in {"none", "empty"}
           \/ fund.error
           \/ BadV \in FundFields(fund)) => RatEq(ret, RatOfInt(P(50)))
    /\ (/\ Done("normalize_sentiment_score")
        /\ \/ sent.k \in {"none", "empty"}
           \/ sent.error
           \/ BadV \in SentFields(sent)) => ret = P(50)

\* an error marker beside metrics that would score 100
C6_Witness ==
    /\ Done("normalize_fundamental_score")
    /\ fund.error /\ fund.pe_ratio = Num(1000) /\ fund.roe = Num(25)
    /\ RatEq(ret, RatOfInt(P(50)))

\* a step of aggregate_scores raises into its try block: the weights cannot be
\* added or compared, a record is None (its .get fails while the result is
\* assembled), or total_articles cannot be compared
AggregateRaises ==
    \/ weights.fundamental.k # "num" \/ weights.sentiment.k # "num"
    \/ fund.k = "none" \/ sent.k = "none"
    \/ sent.total_articles.k = "bad"

\* C7: whenever a step of aggregate_scores raises, the call returns the error
\* result: all three scores 0, HOLD, reasoning 'Analysis failed: <message>'.
C7_ErrorResult ==
    (Done("aggregate_scores") /\ AggregateRaises) =>
        /\ ret.kind = "error"
        /\ ret.overall_score = 0
        /\ ret.fundamental_score = 0
        /\ ret.sentiment_score = 0
        /\ ret.recommendation = "HOLD"
        /\ ret.reasoning.kind = "failed"
        /\ ret.reasoning.msg = ret.error /\ ret.error # ""

\* a raw record that is None
C7_Witness ==
    /\ Done("aggregate_scores")
    /\ fund = FundNone /\ sent.k = "dict"
    /\ weights = WeightsDict(Num(10), Num(10))
    /\ ret.kind = "error" /\ ret.reasoning.msg = MsgNoneGet

\* C8: batch_aggregate returns a list for every list of bundles, a bundle that
\* is None (or not a dictionary) included; no exception reaches the caller.
C8_BatchNeverRaises ==
    Done("batch_aggregate") => ret.kind = "returned"

\* what aggregate_scores returns for one bundle alone
AggregateAlone(b, w, t) ==
    aggregate_scores(b.ticker, b.company_name, b.fundamental_data,
                     b.sentiment_data, WeightGet(w.fundamental),
                     WeightGet(w.sentiment), t)

\* a bundle that fails: it is no dictionary, or its aggregation fails
BundleFails(b, w, t) == b.k = "none" \/ AggregateAlone(b, w, t).kind = "error"

RECURSIVE IsSubSeq(_, _)
IsSubSeq(a, b) ==
    IF a = <<>> THEN TRUE
    ELSE IF b = <<>> THEN FALSE
    ELSE IF Head(a) = Head(b) THEN IsSubSeq(Tail(a), Tail(b))
    ELSE IsSubSeq(a, Tail(b))

RECURSIVE MapAlone(_, _, _)
MapAlone(bs, w, t) ==
    IF bs = <<>> THEN <<>>
    ELSE <<AggregateAlone(Head(bs), w, t)>> \o MapAlone(Tail(bs), w, t)

\* C9: when some bundle of the list fails, every other bundle is still
\* processed: the results of the bundles that do not fail are in the output,
\* each equal to aggregate_scores on that bundle alone, in the input's order.
C9_BatchIsolation ==
    (/\ Done("batch_aggregate") /\ weights.k = "dict"
     /\ \E i \in 1..Len(bundles) : BundleFails(bundles[i], weights, now)
     /\ \E i \in 1..Len(bundles) : ~BundleFails(bundles[i], weights, now)) =>
        /\ ret.kind = "returned"
        /\ IsSubSeq(MapAlone(SelectSeq(bundles,
                        LAMBDA b : ~BundleFails(b, weights, now)), weights, now),
                    ret.results)

\* C10: normalize_fundamental_score returns the weighted mean of the sub-scores
\* of the metrics present, sum(subscore * weight) / sum(weights used), and 50
\* when no metric is present; a single metric yields its own sub-score.
C10_WeightedMean ==
    (/\ Done("normalize_fundamental_score")
     /\ fund.k = "dict" /\ ~fund.error /\ BadV \notin FundFields(fund)) =>
        LET subs == FundSubScores(fund)
            score == SumTo([i \in 1..6 |-> Contribution(subs[i], FundWeights[i])], 6)
            total_weight == SumTo([i \in 1..6 |-> WeightUsed(subs[i], FundWeights[i])], 6)
        IN IF total_weight > 0
           THEN RatEq(ret, Rat(score, total_weight))
           ELSE RatEq(ret, RatOfInt(P(50)))

\* the PE band table of the specification, for a PE > 0 in 1/100
PeBandTable(pe) ==
    IF pe <= 1500 THEN P(100)
    ELSE IF pe <= 2000 THEN P(85)
    ELSE IF pe <= 2500 THEN P(65)
    ELSE IF pe <= 3500 THEN P(40)
    ELSE IF 4000 - (pe - 3500) * 2 > 0 THEN 4000 - (pe - 3500) * 2
    ELSE 0

\* C11: _normalize_pe_ratio follows the band table for every PE > 0
\* (<= 15 -> 100, <= 20 -> 85, <= 25 -> 65, <= 35 -> 40, above 35 ->
\* max(0, 40 - (PE - 35) * 2); so 10 -> 100, 18 -> 85, 22 -> 65, 30 -> 40,
\* 50 -> 10), and a PE that is None or <= 0 is reported as absent (None).
C11_PeBands ==
    Done("_normalize_pe_ratio") =>
        /\ arg.k = "none" => ret = NoneV
        /\ (arg.k = "num" /\ arg.v <= 0) => ret = NoneV
        /\ (arg.k = "num" /\ arg.v > 0) => ret = Num(PeBandTable(arg.v))
        /\ arg = Num(1000) => ret = Num(10000)
        /\ arg = Num(1800) => ret = Num(8500)
        /\ arg = Num(2200) => ret = Num(6500)
        /\ arg = Num(3000) => ret = Num(4000)
        /\ arg = Num(5000) => ret = Num(1000)

\* a PE on a band edge (20.0) has been scored
C11_Witness ==
    /\ Done("_normalize_pe_ratio")
    /\ arg = Num(2000)
    /\ ret = Num(P(85))

\* the unified value of a raw metric v (in 1/100), in 1/10000: v itself when
\* abs(v) <= 1, v / 100 otherwise
Unified(v) == IF (IF v < 0 THEN 0 - v ELSE v) <= 100 THEN v * 100 ELSE v

\* the band tables of the specification, on a unified value in 1/10000
RoeBandTable(u) ==
    IF u >= 2000 THEN 100 ELSE IF u >= 1500 THEN 85 ELSE IF u >= 1000 THEN 65
    ELSE IF u >= 500 THEN 40 ELSE IF u > 0 THEN 20 ELSE 0

MarginBandTable(u) ==
    IF u >= 2000 THEN 100 ELSE IF u >= 1000 THEN 85 ELSE IF u >= 500 THEN 65
    ELSE IF u >= 200 THEN 40 ELSE IF u > 0 THEN 20 ELSE 0

GrowthBandTable(u) ==
    IF u >= 3000 THEN 100 ELSE IF u >= 2000 THEN 90 ELSE IF u >= 1000 THEN 75
    ELSE IF u >= 500 THEN 60 ELSE IF u >= 0 THEN 50 ELSE IF u >= -500 THEN 40
    ELSE IF u >= -1000 THEN 25 ELSE 0

\* C12: for every raw value v, the ROE, profit margin and revenue growth
\* sub-scores are the band tables applied to v when abs(v) <= 1 and to v / 100
\* otherwise.
C12_FractionOrPercentage ==
    /\ (Done("_normalize_roe") /\ arg.k = "num")
          => ret = Num(P(RoeBandTable(Unified(arg.v))))
    /\ (Done("_normalize_profit_margin") /\ arg.k = "num")
          => ret = Num(P(MarginBandTable(Unified(arg.v))))
    /\ (Done("_normalize_revenue_growth") /\ arg.k = "num")
          => ret = Num(P(GrowthBandTable(Unified(arg.v))))

\* a decline given as a percentage (-7.0, read as -0.07) has been scored
C12_Witness ==
    /\ Done("_normalize_revenue_growth")
    /\ arg = Num(-700)
    /\ ret = Num(P(25))

\* the fields of a sentiment record are numbers or absent
SentNumeric(r) == \A x \in SentFields(r) : x.k \in {"none", "num"}

\* a field of the record, absent reading as 0
SentValue(x) == IF x.k = "num" THEN x.v ELSE 0

\* the sub-score tables of the specification, in points
CoverageTable(total_articles) ==
    IF total_articles >= 15 THEN 100 ELSE IF total_articles >= 10 THEN 85
    ELSE IF total_articles >= 5 THEN 70 ELSE IF total_articles >= 2 THEN 55
    ELSE IF total_articles >= 1 THEN 40 ELSE 20

\* positive / (positive + negative) >= tenths / 10
ShareGe(positive, negative, tenths) ==
    IF positive + negative > 0
    THEN 10 * positive >= tenths * (positive + negative)
    ELSE 10 * positive <= tenths * (positive + negative)

RatioTable(positive, negative) ==
    IF positive + negative = 0 THEN 50
    ELSE IF ShareGe(positive, negative, 8) THEN 100
    ELSE IF ShareGe(positive, negative, 6) THEN 80
    ELSE IF ShareGe(positive, negative, 4) THEN 60
    ELSE IF ShareGe(positive, negative, 2) THEN 40
    ELSE 20

ConsistencyTable(volatility) ==
    IF volatility <= 10 THEN 100 ELSE IF volatility <= 20 THEN 80
    ELSE IF volatility <= 30 THEN 60 ELSE IF volatility <= 50 THEN 40 ELSE 20

\* 50 + avg * 25 + (coverage - 50) * 0.20 + (ratio - 50) * 0.20
\*    + (consistency - 50) * 0.10, in 1/100 point, before the clamp
SentimentFormula(r) ==
    5000 + SentValue(r.avg_sentiment) * 25
    + (CoverageTable(SentValue(r.total_articles)) - 50) * 20
    + (RatioTable(SentValue(r.positive_count), SentValue(r.negative_count)) - 50) * 20
    + (ConsistencyTable(SentValue(r.sentiment_volatility)) - 50) * 10

\* C13: for every non-empty sentiment record without an error marker (its
\* fields numbers, or absent and read as 0), normalize_sentiment_score returns
\* 50 + avg * 25 + (coverage - 50) * 0.20 + (ratio - 50) * 0.20
\* + (consistency - 50) * 0.10 with the sub-scores of the three tables,
\* clamped to [0,100] once, at the end.
C13_SentimentFormula ==
    (/\ Done("normalize_sentiment_score")
     /\ sent.k = "dict"
     /\ ~sent.error
     /\ SentNumeric(sent))
    => ret = (IF SentimentFormula(sent) > 10000 THEN 10000
              ELSE IF SentimentFormula(sent) < 0 THEN 0
              ELSE SentimentFormula(sent))

\* a record whose running sum passes 100 (50 + 55) and comes back: 90
C13_Witness ==
    /\ Done("normalize_sentiment_score")
    /\ sent = SentDict(Num(220), Num(0), Num(0), Num(4), Num(60), FALSE)
    /\ ret = P(90)

\* C14: two calls of aggregate_scores with identical inputs return results
\* equal in every field (no call changes state the other one observes).
C14_Idempotence ==
    (Done("aggregate_scores") /\ prev # NoneV) => ret = prev

\* the factors k the weights are scaled by
ScaleFactors == {2, 5, 10}

\* the result of the call that has returned, had its weights been k times larger
ScaledCall(k) ==
    aggregate_scores("AAA", "AAA", fund, sent, Num(k * weights.fundamental.v),
                     Num(k * weights.sentiment.v), now)

Entries == {results_arg.items[i] : i \in 1..Len(results_arg.items)}

\* C16: get_portfolio_summary never raises: for an empty list it returns the
\* error marker {'error': ...} and no statistics, and for an input on which
\* the computation fails (an entry that is None, a score that is not a
\* number) it returns an error marker too.
C16_SummaryNeverRaises ==
    Done("get_portfolio_summary") =>
        /\ ret # RaiseV
        /\ (results_arg.k = "list" /\ results_arg.items = <<>>)
              => (DOMAIN ret = {"error"} /\ ret.error # "")
        /\ (\E e \in Entries : e.kind \in {"none", "badscore"})
              => (DOMAIN ret = {"error"} /\ ret.error # "")

\* the computation has failed on a list that holds a result and a None
C16_Witness ==
    /\ Done("get_portfolio_summary")
    /\ Len(results_arg.items) = 2
    /\ results_arg.items[1].kind = "result"
    /\ results_arg.items[2].kind = "none"
    /\ ret = [error |-> MsgSummaryFailed]

\* C17: for a non-empty list of results of aggregate_scores, the summary
\* reports total_stocks = the length of the list, a BUY/HOLD/SELL histogram
\* that sums to total_stocks, a top_performer whose overall_score is >= that
\* of every result and a worst_performer whose overall_score is <= that of
\* every result.
C17_SummaryStatistics ==
    (/\ Done("get_portfolio_summary")
     /\ results_arg.items # <<>>
     /\ \A e \in Entries : e.kind \in {"result", "error"})
    => /\ "error" \notin DOMAIN ret
       /\ ret.total_stocks = Len(results_arg.items)
       /\ ret.recommendation_distribution.BUY + ret.recommendation_distribution.HOLD
            + ret.recommendation_distribution.SELL = ret.total_stocks
       /\ ret.top_performer \in Entries
       /\ ret.worst_performer \in Entries
       /\ \A e \in Entries :
            /\ ret.top_performer.overall_score >= e.overall_score
            /\ ret.worst_performer.overall_score <= e.overall_score

\* a SELL, a BUY and a HOLD have been summarized, the best one not first
C17_Witness ==
    /\ Done("get_portfolio_summary")
    /\ Len(results_arg.items) = 3
    /\ \A e \in Entries : e.kind \in {"result", "error"}
    /\ results_arg.items[1].recommendation = "SELL"
    /\ results_arg.items[2].recommendation = "BUY"
    /\ results_arg.items[3].kind = "error"
    /\ ret.recommendation_distribution = [BUY |-> 1, HOLD |-> 1, SELL |-> 1]
    /\ ret.top_performer = results_arg.items[2]
    /\ ret.worst_performer = results_arg.items[3]

\* C18: in batch_aggregate a bundle whose aggregation fails (a None record,
\* for example) is omitted from the returned list: the output holds no entry
\* for it, and its length is the number of bundles processed without failure.
C18_FailedBundlesOmitted ==
    (/\ Done("batch_aggregate") /\ weights.k = "dict"
     /\ \A i \in 1..Len(bundles) : bundles[i].k = "dict")
    => /\ ret.kind = "returned"
       /\ Len(ret.results) =
            Cardinality({i \in 1..Len(bundles) : ~BundleFails(bundles[i], weights, now)})
       /\ \A j \in 1..Len(ret.results) : ret.results[j].kind # "error"

\* the running score after one more contribution, kept in [0,100] (1/100 point)
Step(running, contribution) ==
    IF running + contribution > 10000 THEN 10000
    ELSE IF running + contribution < 0 THEN 0
    ELSE running + contribution

\* the fundamental score with the running score clamped after every
\* contribution, in the order of the code: PE, PB, ROE, margin, debt, growth
RunningFundamental(r) ==
    Step(Step(Step(Step(Step(Step(5000,
        P(PePoints(r.pe_ratio))), P(PbPoints(r.pb_ratio))), P(RoePoints(r.roe))),
        P(MarginPoints(r.profit_margin))), P(DebtPoints(r.debt_to_equity))),
        P(GrowthPoints(r.revenue_growth)))

\* the same for the sentiment score: polarity, articles, ratio, volatility
RunningSentiment(r) ==
    Step(Step(Step(Step(5000,
        SentimentPoints(r.avg_sentiment)),
        P(ArticlePoints(Get(r.total_articles, 0)))),
        P(RatioPoints(Get(r.positive_count, 0), Get(r.negative_count, 0)))),
        P(VolatilityPoints(Get(r.sentiment_volatility, 0))))

\* C19: in the Aggregator's fundamental and sentiment scoring the running
\* score is clamped to [0,100] after every additive contribution, so that a
\* penalty applied after the running score has reached 100 lowers the final
\* score below 100 (and a bonus applied after it has reached 0 raises it).
C19_RunningClamp ==
    /\ (Done("_calculate_fundamental_score") /\ ~FundScoringRaises(fund))
          => ret = RunningFundamental(fund)
    /\ (Done("_calculate_sentiment_score") /\ ~SentScoringRaises(sent))
          => ret = RunningSentiment(sent)

\* the result of the call that has returned, had the PE been absent
CallWithoutPe ==
    aggregate_scores("AAA", "AAA", [fund EXCEPT !.pe_ratio = NoneV], sent,
                     weights.fundamental, weights.sentiment, now)

\* C20: a PE <= 0 is treated as missing throughout aggregate_scores: replacing
\* it by an absent PE changes neither the fundamental score, the overall
\* score, the recommendation nor the reasoning (no valuation clause for it).
C20_InvalidPeAsMissing ==
    (/\ Done("aggregate_scores")
     /\ fund.k = "dict"
     /\ fund.pe_ratio.k = "num" /\ fund.pe_ratio.v <= 0)
    => /\ ret.fundamental_score = CallWithoutPe.fundamental_score
       /\ ret.overall_score = CallWithoutPe.overall_score
       /\ ret.recommendation = CallWithoutPe.recommendation
       /\ ret.reasoning = CallWithoutPe.reasoning

\* the per-metric normalization functions
MetricNormalizers ==
    {"_normalize_pe_ratio", "_normalize_pb_ratio", "_normalize_roe",
     "_normalize_debt_to_equity", "_normalize_profit_margin",
     "_normalize_revenue_growth"}

\* the metric fields of the record the composite was computed for that are
\* reported absent: the field is missing, or it is a PE or a PB <= 0
AbsentMetrics ==
    {i \in 1..6 :
        LET x == <<fund.pe_ratio, fund.pb_ratio, fund.roe, fund.debt_to_equity,
                   fund.profit_margin, fund.revenue_growth>>[i]
        IN x.k = "none" \/ (i \in {1, 2} /\ x.k = "num" /\ x.v <= 0)}

\* the record with its i-th metric field removed
WithoutMetric(r, i) ==
    IF i = 1 THEN [r EXCEPT !.pe_ratio = NoneV]
    ELSE IF i = 2 THEN [r EXCEPT !.pb_ratio = NoneV]
    ELSE IF i = 3 THEN [r EXCEPT !.roe = NoneV]
    ELSE IF i = 4 THEN [r EXCEPT !.debt_to_equity = NoneV]
    ELSE IF i = 5 THEN [r EXCEPT !.profit_margin = NoneV]
    ELSE [r EXCEPT !.revenue_growth = NoneV]

\* C21: every per-metric normalization function returns None or a number in
\* [0,100]; a metric whose sub-score is None adds nothing to the weighted sum
\* and to the weight total, so the composite of the record equals the
\* composite of the record with that metric's field removed.
C21_AbsentOrInRange ==
    /\ (pc = "done" /\ op \in MetricNormalizers /\ arg.k \in {"none", "num"})
          => \/ ret = NoneV
             \/ (ret.k = "num" /\ ret.v >= 0 /\ ret.v <= 10000)
    /\ (Done("normalize_fundamental_score") /\ fund.k = "dict")
          => \A i \in AbsentMetrics :
                RatEq(ret, normalize_fundamental_score(WithoutMetric(fund, i)))

\* an invalid PE (0.0) beside a scored ROE: the composite is that of the ROE
C21_Witness ==
    /\ Done("normalize_fundamental_score")
    /\ fund = FundDict(Num(0), NoneV, Num(-10), NoneV, NoneV, NoneV, FALSE)
    /\ 1 \in AbsentMetrics
    /\ RatEq(ret, RatOfInt(0))

\* the clauses of the reasoning, by kind
OverallClauses ==
    {"Strong overall performance", "Good overall performance",
     "Mixed performance signals", "Weak overall performance"}
FundamentalClauses == {"strong fundamentals", "decent fundamentals", "weak fundamentals"}
ValuationClauses == {"attractive valuation", "high valuation"}
RoeClauses == {"excellent returns on equity", "low returns on equity"}
SentimentClauses ==
    {"positive market sentiment", "neutral market sentiment", "negative market sentiment"}
CoverageClauses == {"good news coverage", "limited news coverage"}

\* zero or one clause of a kind
Optional(S) == {<<>>} \cup {<<c>> : c \in S}

\* the clauses joined with '. ', from the i-th on
RECURSIVE JoinedFrom(_, _)
JoinedFrom(parts, i) ==
    IF i > Len(parts) THEN "" ELSE ". " \o parts[i] \o JoinedFrom(parts, i + 1)

\* the reasoning r is a sentence of clauses in the fixed order, with exactly
\* one overall, one fundamentals and one sentiment clause, the debt clause
\* present exactly when debt_to_equity > 1.0, joined with '. ', starting with
\* the capital letter of the overall clause and ending with a period
ClauseSentence(r, debt_to_equity) ==
    /\ Len(r.parts) >= 3
    /\ r.parts[1] \in OverallClauses
    /\ r.parts[2] \in FundamentalClauses
    /\ \E v \in Optional(ValuationClauses), e \in Optional(RoeClauses),
          t \in SentimentClauses, c \in Optional(CoverageClauses),
          d \in Optional({"high debt levels"}) :
            /\ r.parts = <<r.parts[1], r.parts[2]>> \o v \o e \o <<t>> \o c \o d
            /\ d # <<>> <=> (debt_to_equity.k = "num" /\ debt_to_equity.v > 100)
    /\ r.text = r.parts[1] \o JoinedFrom(r.parts, 2) \o "."

\* a score of the result (a multiple of 0.1) written with one decimal
ScoreText(x) ==
    LET a == IF x < 0 THEN 0 - x ELSE x
    IN (IF x < 0 THEN "-" ELSE "") \o ToString(a \div 100) \o "." \o ToString((a % 100) \div 10)

\* C22 as stated: the reasoning of every non-error result is a sentence of
\* clauses in the fixed order overall, fundamentals, valuation (optional), ROE
\* (optional), sentiment, coverage (optional), debt (exactly when
\* debt_to_equity > 1.0), joined with '. ', capitalized, ending with a period.
C22_ReasoningStructure ==
    (Done("aggregate_scores") /\ ret.kind = "result")
    => ClauseSentence(ret.reasoning, fund.debt_to_equity)

\* C22, amended: the reasoning of a non-error result is such a sentence of
\* clauses, unless a metric the clauses are chosen by (PE, ROE, debt to
\* equity) is not a number: then it is the fallback sentence 'Analysis
\* completed with overall score of <score>/100', which ends with no period.
C22_ReasoningStructureOrFallback ==
    (Done("aggregate_scores") /\ ret.kind = "result")
    => IF \E x \in {fund.pe_ratio, fund.roe, fund.debt_to_equity} : x.k = "bad"
       THEN /\ ret.reasoning.parts = <<>>
            /\ ret.reasoning.text = "Analysis completed with overall score of "
                   \o ScoreText(ret.overall_score) \o "/100"
       ELSE ClauseSentence(ret.reasoning, fund.debt_to_equity)

\* a sentence of all seven clauses has been returned
C22_Witness ==
    /\ Done("aggregate_scores") /\ ret.kind = "result"
    /\ ret.reasoning.text = "Strong overall performance. strong fundamentals. attractive valuation. excellent returns on equity. positive market sentiment. good news coverage. high debt levels."

\* the reasoning r starts with the overall clause c
StartsWith(r, c) ==
    /\ r.kind = "clauses"
    /\ Len(r.parts) >= 1
    /\ r.parts[1] = c
    /\ r.text = c \o JoinedFrom(r.parts, 2) \o "."

\* the overall clause of the reasoning agrees with the recommendation
ClauseAgrees(r) ==
    /\ r.recommendation = "SELL" <=> StartsWith(r.reasoning, "Weak overall performance")
    /\ r.recommendation = "BUY"
          => \/ StartsWith(r.reasoning, "Strong overall performance")
             \/ StartsWith(r.reasoning, "Good overall performance")
    /\ r.recommendation = "HOLD"
          => \/ StartsWith(r.reasoning, "Mixed performance signals")
             \/ StartsWith(r.reasoning, "Good overall performance")

\* C23 as stated: in every non-error result the recommendation is SELL exactly
\* when the reasoning starts with 'Weak overall performance', a BUY reasoning
\* starts with 'Strong overall performance' or 'Good overall performance', and
\* a HOLD reasoning with 'Mixed performance signals' or 'Good overall
\* performance'.
C23_ClauseAgrees ==
    (Done("aggregate_scores") /\ ret.kind = "result") => ClauseAgrees(ret)

\* C23, amended: the overall clause agrees with the recommendation in that way
\* in every non-error result whose PE, ROE and debt to equity are numbers or
\* absent; otherwise the reasoning is the fallback sentence, which starts with
\* none of the overall clauses whatever the recommendation is.
C23_ClauseAgreesUnlessFallback ==
    (Done("aggregate_scores") /\ ret.kind = "result")
    => IF \E x \in {fund.pe_ratio, fund.roe, fund.debt_to_equity} : x.k = "bad"
       THEN \A c \in OverallClauses : ~StartsWith(ret.reasoning, c)
       ELSE ClauseAgrees(ret)

\* a HOLD whose reasoning starts with 'Good overall performance'
C23_Witness ==
    /\ Done("aggregate_scores") /\ ret.kind = "result"
    /\ ret.recommendation = "HOLD"
    /\ StartsWith(ret.reasoning, "Good overall performance")

\* every field of the fundamental record f is a number or absent
FundNumeric(f) ==
    /\ f.k \in {"empty", "dict"}
    /\ \A x \in {f.pe_ratio, f.pb_ratio, f.roe, f.debt_to_equity,
                  f.profit_margin, f.revenue_growth} : x.k \in {"none", "num"}

\* the sentiment record s has avg_sentiment in [-1,1], non-negative counts
\* and a numeric volatility, each of them possibly absent
SentInRange(s) ==
    /\ s.k \in {"empty", "dict"}
    /\ s.avg_sentiment.k \in {"none", "num"}
    /\ s.avg_sentiment.k = "num" => (s.avg_sentiment.v >= -100 /\ s.avg_sentiment.v <= 100)
    /\ \A x \in {s.total_articles, s.positive_count, s.negative_count} :
          /\ x.k \in {"none", "num"}
          /\ x.k = "num" => x.v >= 0
    /\ s.sentiment_volatility.k \in {"none", "num"}

\* the sum of the points of f before max(0, min(100, .)), in 1/100 point
RawFundamental(f) ==
    P(50 + PePoints(f.pe_ratio) + PbPoints(f.pb_ratio) + RoePoints(f.roe)
         + MarginPoints(f.profit_margin) + DebtPoints(f.debt_to_equity)
         + GrowthPoints(f.revenue_growth))

\* the sum of the points of s before max(0, min(100, .)), in 1/100 point
RawSentiment(s) ==
    P(50) + SentimentPoints(s.avg_sentiment)
    + P(ArticlePoints(Get(s.total_articles, 0)))
    + P(RatioPoints(Get(s.positive_count, 0), Get(s.negative_count, 0)))
    + P(VolatilityPoints(Get(s.sentiment_volatility, 0)))

\* C24: the fundamental score of a record with numeric or absent fields is at
\* least 15 and the sentiment score of a record with avg_sentiment in [-1,1]
\* and non-negative counts is at least 5, the sums being at least that before
\* the clamp, so that max(0, .) never acts; and a result returned by
\* aggregate_scores has fundamental_score 0 only if it is the error result.
C24_ScoreFloors ==
    /\ (Done("_calculate_fundamental_score") /\ FundNumeric(fund))
          => (ret >= P(15) /\ RawFundamental(fund) >= P(15))
    /\ (Done("_calculate_sentiment_score") /\ SentInRange(sent))
          => (ret >= P(5) /\ RawSentiment(sent) >= P(5))
    /\ (Done("aggregate_scores") /\ ret.fundamental_score = 0)
          => ret.kind = "error"

\* the record with every penalty scores exactly 15
C24_Witness ==
    /\ Done("_calculate_fundamental_score")
    /\ fund = FundDict(Num(5480), Num(900), Num(-10), Num(170), Num(-5), Num(-20), FALSE)
    /\ ret = P(15)

\* what get(key) without ttl returns from the cache (memory, files) at time t
Lookup(memory, files, t, key) == get(memory, files, key, NoneV, t).ret

\* C25: get(k) returns only data that a set on the same key k was given, and
\* a set or an invalidate on another key leaves what get(k) returns as it was.
C25_KeysIsolated ==
    [][/\ (pc' = "done" /\ op' = "get" /\ ret' # "None")
            => ret' \in stored'[arg'.key]
       /\ (pc' = "done" /\ op' \in {"set", "invalidate"})
            => \A key \in Keys \ {arg'.key} :
                  Lookup(memory_cache', cache_files', now', key)
                    = Lookup(memory_cache, cache_files, now, key)]_vars

\* C26: get(key) without ttl returns the data of the most recent set of the
\* key while fewer than the ttl of that set seconds have passed since it, and
\* None otherwise, whatever calls of get were made in between.
C26_MostRecentSet ==
    (Done("get") /\ arg.ttl = NoneV)
    => ret = IF /\ last_set[arg.key].k = "entry"
                /\ now - last_set[arg.key].timestamp < last_set[arg.key].ttl
             THEN last_set[arg.key].data
             ELSE "None"

\* C27: one cached_call invokes func zero times when get(key, ttl) finds data
\* that is not None, and exactly once otherwise, also when func raises.
C27_FuncAtMostOnce ==
    [][(pc' = "done" /\ op' = "cached_call")
         => ret'.func_calls =
              IF get(memory_cache, cache_files, arg'.key, arg'.ttl, now).ret # "None"
              THEN 0 ELSE 1]_vars

\* the entry of key, in the dictionary or in its file, is expired or corrupted
Stale(memory, files, t, key) ==
    \/ memory[key].k = "entry" /\ ~_is_valid(memory[key], NoneV, t)
    \/ files[_get_cache_file_path(key)].k = "corrupted"
    \/ /\ files[_get_cache_file_path(key)].k = "entry"
       /\ ~_is_valid(files[_get_cache_file_path(key)], NoneV, t)

\* C28: cleanup_expired returns the number of distinct cached keys whose
\* entry was expired or corrupted and is no longer retrievable, and it removes
\* no entry that is not expired.
C28_CleanupCount ==
    [][(pc' = "done" /\ op' = "cleanup_expired")
         => /\ ret' = Cardinality({key \in Keys :
                        /\ stored[key] # {}
                        /\ Stale(memory_cache, cache_files, now, key)
                        /\ Lookup(memory_cache', cache_files', now', key) = "None"})
            /\ \A key \in Keys :
                  Lookup(memory_cache, cache_files, now, key) # "None"
                  => Lookup(memory_cache', cache_files', now', key)
                       = Lookup(memory_cache, cache_files, now, key)]_vars

\* C29: a set that returns False leaves the cache as it was: get on its key,
\* with any ttl, returns what it would have returned before the set.
C29_FailedSetNoChange ==
    [][(pc' = "done" /\ op' = "set" /\ ret' = FALSE)
         => \A ttl \in TtlValues :
              get(memory_cache', cache_files', arg'.key, ttl, now').ret
                = get(memory_cache, cache_files, arg'.key, ttl, now).ret]_vars

====
